---- MODULE Spec2Model ----
(***************************************************************************)
(* A model of the dataset / model pipeline of src/epl_prediction.py:       *)
(*   add_outcome, compute_elo_features, compute_form_features,             *)
(*   build_feature_matrix, train_model, predict_for_fixtures,              *)
(*   predict_for_rows and predict_single_match.                            *)
(*                                                                         *)
(* Floating point values are modelled as exact scaled integers:            *)
(*   - a rolling mean is stored multiplied by MeanScale (a common multiple *)
(*     of every possible sample count), so equal means are equal integers; *)
(*   - Elo ratings are stored in thousandths of a rating point and         *)
(*     expected scores in thousandths, so the update is exact arithmetic;  *)
(*   - probabilities are stored in thousandths (ProbScale).                *)
(* A missing value (np.nan / None / NaT) is the value NaN.                 *)
(***************************************************************************)
EXTENDS Integers, Sequences, FiniteSets, TLC

VARIABLES
    df,         \* the match table handed to the function under study
    params,     \* the arguments of the call and the environment it runs in
    pc,         \* position of the running function
    feat,       \* the columns the function appends to df
    cut,        \* compute_form_features: the rolling columns of the truncated table
    mref,       \* the match under observation (a row number of df), 0 when none
    ratings,    \* compute_elo_features: the dict team_id -> current rating
    row,        \* compute_elo_features: number of rows the loop has consumed
    pre_elo,    \* compute_elo_features: the lists pre_home_elo / pre_away_elo
    X,          \* train_model: the feature matrix (index and column labels)
    y,          \* train_model: the label series (index and values)
    split,      \* train_model: train_idx / val_idx
    pipes,      \* train_model: the fitted rf_pipe and lr_pipe
    scores,     \* train_model: rf_acc, rf_ll, lr_acc, lr_ll
    best,       \* train_model: best_pipe and model_type
    disk,       \* the file at save_path
    writes,     \* number of joblib.dump calls made
    error,      \* the exception that ended the call, "" when none
    out,        \* the value a predict_* call returned
    temp_df,    \* predict_single_match: df_all with the candidate row appended
    console     \* the lines a cmd_* handler has printed

formVars == <<cut, mref>>
eloVars == <<ratings, row, pre_elo>>
trainVars == <<X, y, split, pipes, scores, best, disk, writes, error>>

cmdVars == <<temp_df, console>>

vars == <<df, params, pc, feat, formVars, eloVars, trainVars, out, cmdVars>>

(***************************************************************************)
(* Bounds of the model.                                                    *)
(***************************************************************************)
MaxFormRows == 3        \* rows of a table given to compute_form_features
MaxWindow == 2          \* largest rolling window tried
MaxEloRows == 2         \* rows of a table given to compute_elo_features
MaxMatrixRows == 2      \* rows of a table given to build_feature_matrix alone
MaxTrainRows == 3       \* rows of a table given to train_model
MaxPredictRows == 2     \* rows of a table given to the predict_* functions
Teams == {1, 2, 3}      \* team ids; the order of the ids is the order pandas sorts them in
Goals == {0, 1}         \* scores of a played match

NaN == -9999            \* np.nan: a missing score, a missing feature value
MeanScale == 60         \* rolling means are stored times 60 (divisible by every count <= 6)

isna(v) == v = NaN
notna(v) == v # NaN

None == <<>>                \* Python's None / a local not assigned yet

FormIdle == cut = None /\ mref = 0
EloIdle == ratings = <<>> /\ row = 0 /\ pre_elo = <<>>
TrainIdle ==
    /\ X = None /\ y = None /\ split = None /\ pipes = None /\ scores = None
    /\ best = None /\ disk = None /\ writes = 0 /\ error = ""
    /\ out = None
    /\ temp_df = None /\ console = <<>>

Range(s) == {s[i] : i \in 1..Len(s)}

RECURSIVE SumSeq(_)
SumSeq(s) == IF s = <<>> THEN 0 ELSE Head(s) + SumSeq(Tail(s))

\* the subsequence of s at the positions where keep holds (boolean indexing)
RECURSIVE FilterFrom(_, _, _)
FilterFrom(s, keep, i) ==
    IF i > Len(s) THEN <<>>
    ELSE (IF keep[i] THEN <<s[i]>> ELSE <<>>) \o FilterFrom(s, keep, i + 1)

Filter(s, keep) == FilterFrom(s, keep, 1)

\* the last n entries of q
LastOf(q, n) == SubSeq(q, IF Len(q) > n THEN Len(q) - n + 1 ELSE 1, Len(q))

\* the mean of the values that are not missing, missing when there is none
MeanOf(vals) ==
    LET known == Filter(vals, [k \in 1..Len(vals) |-> notna(vals[k])])
    IN  IF known = <<>> THEN NaN ELSE (SumSeq(known) * MeanScale) \div Len(known)

(***************************************************************************)
(* The match table: one record per fixture, in the order                   *)
(* build_matches_dataframe leaves them (ascending date).  A season_id      *)
(* "2023-2024" is the pair <<2023, 2024>>.  A team's name is written as a  *)
(* number; Fixture gives every team the name that equals its id.           *)
(***************************************************************************)
Fixture(s, d, h, a, hs, as) ==
    [season_id |-> s, date |-> d, home |-> h, home_team_id |-> h,
     away |-> a, away_team_id |-> a,
     home_team_score |-> hs, away_team_score |-> as]

Scores == Goals \cup {NaN}

\* a fixture has both scores (played) or neither (not played yet)
ScorePairs == {<<NaN, NaN>>} \cup (Goals \X Goals)

SeqsUpTo(S, n) == UNION {[1..k -> S] : k \in 0..n}

\* the table sorted by date: row i is played on day i
Dated(t) == [i \in 1..Len(t) |-> [t[i] EXCEPT !.date = i]]

(***************************************************************************)
(* compute_form_features (src/epl_prediction.py:1125-1238)                 *)
(***************************************************************************)
\* lines 1144-1148: the home side of every match as a team appearance
home_df(t) ==
    [i \in 1..Len(t) |->
        [team_id |-> t[i].home_team_id, date |-> t[i].date,
         gf |-> t[i].home_team_score, ga |-> t[i].away_team_score, is_home |-> 1]]

\* lines 1149-1153: the away side of every match as a team appearance
away_df(t) ==
    [i \in 1..Len(t) |->
        [team_id |-> t[i].away_team_id, date |-> t[i].date,
         gf |-> t[i].away_team_score, ga |-> t[i].home_team_score, is_home |-> 0]]

\* line 1156: np.where(gf > ga, 3, np.where(gf < ga, 0, 1)); a comparison with
\* NaN is False, so an appearance without scores gets 1 point
pts(r) ==
    IF notna(r.gf) /\ notna(r.ga) /\ r.gf > r.ga THEN 3
    ELSE IF notna(r.gf) /\ notna(r.ga) /\ r.gf < r.ga THEN 0
    ELSE 1

\* line 1157: gf - ga, NaN when a score is missing
gd(r) == IF isna(r.gf) \/ isna(r.ga) THEN NaN ELSE r.gf - r.ga

gf(r) == r.gf
ga(r) == r.ga

\* sort_values(["team_id", "date"])
TeamDateOrder(u, v) ==
    \/ u.team_id < v.team_id
    \/ u.team_id = v.team_id /\ u.date < v.date

\* lines 1154-1160: the long table, one row per team appearance, sorted by
\* (team_id, date) and re-indexed
long_df(t) == SortSeq(home_df(t) \o away_df(t), TeamDateOrder)

\* groupby("team_id")[col].rolling(window, min_periods=1).mean() at row q of a
\* table L grouped by team: the mean of the non-missing values among the last
\* `window` rows of q's team up to and including q
RollingMean(L, q, window, col) ==
    LET inWin == [p \in 1..Len(L) |->
                    /\ p <= q
                    /\ p > q - window
                    /\ L[p].team_id = L[q].team_id
                    /\ notna(col[p])]
        vals == Filter(col, inWin)
    IN  IF vals = <<>> THEN NaN ELSE (SumSeq(vals) * MeanScale) \div Len(vals)

\* ....rolling(window, min_periods=1).mean().shift(1): the shift is applied to
\* the concatenation of all groups, so row p receives the rolling mean of row
\* p - 1 of the table, whichever team that row belongs to
ShiftedRollingMean(L, p, window, col) ==
    IF p = 1 THEN NaN ELSE RollingMean(L, p - 1, window, col)

\* lines 1161-1172: ppg_last5, gd_avg_last5, gf_avg_last5, ga_avg_last5 of the
\* long table
long_features(L, window) ==
    LET cpts == [p \in 1..Len(L) |-> pts(L[p])]
        cgd  == [p \in 1..Len(L) |-> gd(L[p])]
        cgf  == [p \in 1..Len(L) |-> gf(L[p])]
        cga  == [p \in 1..Len(L) |-> ga(L[p])]
    IN  [p \in 1..Len(L) |->
            [ppg_last5    |-> ShiftedRollingMean(L, p, window, cpts),
             gd_avg_last5 |-> ShiftedRollingMean(L, p, window, cgd),
             gf_avg_last5 |-> ShiftedRollingMean(L, p, window, cgf),
             ga_avg_last5 |-> ShiftedRollingMean(L, p, window, cga)]]

\* lines 1186-1193: the rolling PPG over the rows with is_home == flag only
\* (again shifted across groups), NaN on the other rows
split_ppg(L, window, flag) ==
    LET keep == [p \in 1..Len(L) |-> L[p].is_home = flag]
        S    == Filter(L, keep)
        spts == [p \in 1..Len(S) |-> pts(S[p])]
        pos(q) == Cardinality({p \in 1..q : keep[p]})
    IN  [q \in 1..Len(L) |->
            IF keep[q] THEN ShiftedRollingMean(S, pos(q), window, spts) ELSE NaN]

\* lines 1196-1197: groupby("team_id")[col].ffill()
ffill(L, col) ==
    [q \in 1..Len(L) |->
        LET prev == {p \in 1..q : L[p].team_id = L[q].team_id /\ notna(col[p])}
        IN  IF prev = {} THEN NaN
            ELSE col[CHOOSE p \in prev : \A o \in prev : o <= p]]

\* the row of the long table merged onto a match: on=["team_id", "date"]
Appearance(L, team, date) ==
    CHOOSE q \in 1..Len(L) : L[q].team_id = team /\ L[q].date = date

\* lines 1199-1236: the rolling columns joined onto every match
compute_form_features(t, window) ==
    LET L  == long_df(t)
        F  == long_features(L, window)
        ph == ffill(L, split_ppg(L, window, 1))
        pa == ffill(L, split_ppg(L, window, 0))
    IN  [i \in 1..Len(t) |->
            LET h  == Appearance(L, t[i].home_team_id, t[i].date)
                a  == Appearance(L, t[i].away_team_id, t[i].date)
                fh == F[h]
                fa == F[a]
            IN  [home_ppg_last5      |-> fh.ppg_last5,
                 home_gd_avg_last5   |-> fh.gd_avg_last5,
                 home_gf_avg_last5   |-> fh.gf_avg_last5,
                 home_ga_avg_last5   |-> fh.ga_avg_last5,
                 away_ppg_last5      |-> fa.ppg_last5,
                 away_gd_avg_last5   |-> fa.gd_avg_last5,
                 away_gf_avg_last5   |-> fa.gf_avg_last5,
                 away_ga_avg_last5   |-> fa.ga_avg_last5,
                 home_home_ppg_last5 |-> ph[h],
                 home_away_ppg_last5 |-> pa[h],
                 away_home_ppg_last5 |-> ph[a],
                 away_away_ppg_last5 |-> pa[a]]]

(***************************************************************************)
(* Specification SpecForm: compute_form_features on a table, and on the    *)
(* same table without the matches dated after a chosen match.              *)
(***************************************************************************)
FormFixtures ==
    {Fixture(<<2023, 2024>>, 0, pr[1], pr[2], sc[1], sc[2]) :
        pr \in {x \in Teams \X Teams : x[1] # x[2]}, sc \in ScorePairs}

FormTables == {Dated(t) : t \in SeqsUpTo(FormFixtures, MaxFormRows)}

\* the matches of t dated on or before day d
NotAfter(t, d) == Filter(t, [i \in 1..Len(t) |-> t[i].date <= d])

InitForm ==
    /\ df \in FormTables
    /\ params \in [window : 1..MaxWindow]
    /\ pc = "raw"
    /\ feat = <<>>
    /\ FormIdle
    /\ EloIdle
    /\ TrainIdle

\* df = compute_form_features(df, window)
ComputeForm ==
    /\ pc = "raw"
    /\ feat' = compute_form_features(df, params.window)
    /\ pc' = "built"
    /\ UNCHANGED <<df, params, formVars, eloVars, trainVars, out, cmdVars>>

\* the same call on the table without the matches dated after match m
ComputeFormWithoutLater ==
    /\ pc = "built"
    /\ \E m \in 1..Len(df) :
        /\ mref' = m
        /\ cut' = compute_form_features(NotAfter(df, df[m].date), params.window)
    /\ pc' = "cut"
    /\ UNCHANGED <<df, params, feat, eloVars, trainVars, out, cmdVars>>

NextForm == ComputeForm \/ ComputeFormWithoutLater

SpecForm == InitForm /\ [][NextForm]_vars

\* the number of m's row in the truncated table
RowIn(t, m) == Cardinality({i \in 1..m : t[i].date <= t[m].date})

\* C1: no leakage in rolling form: removing from the input every match dated
\* strictly after match m leaves every rolling column of m unchanged
C1_NoLeakage ==
    pc = "cut" => cut[RowIn(df, mref)] = feat[mref]

(***************************************************************************)
(* compute_elo_features (src/epl_prediction.py:1083-1122)                  *)
(* Ratings are integers in thousandths of a rating point, scores and       *)
(* expected scores in thousandths.                                         *)
(***************************************************************************)
EloUnit == 1000             \* thousandths per rating point / per unit of score
InitialRating == 1500       \* ratings.get(team_id, 1500.0)
DefaultK == 20              \* k_factor: float = 20.0
DefaultHomeAdv == 50        \* home_adv: float = 50.0

\* 1000 / (1 + 10 ** (-d / 400)) at d = 0, 100, ..., 900 rating points
LogisticTable == <<500, 640, 760, 849, 909, 947, 969, 983, 990, 994>>

\* line 1108: 1.0 / (1.0 + 10 ** (-x / 400)), x in thousandths of a point,
\* linear between the table entries
Logistic(x) ==
    LET ax   == IF x < 0 THEN -x ELSE x
        step == 100 * EloUnit
        seg  == ax \div step
        e    == IF seg + 1 >= Len(LogisticTable) THEN LogisticTable[Len(LogisticTable)]
                ELSE LogisticTable[seg + 1]
                     + ((LogisticTable[seg + 2] - LogisticTable[seg + 1]) * (ax % step)) \div step
    IN  IF x < 0 THEN EloUnit - e ELSE e

\* lines 1092-1093
get_rating(rt, team_id) ==
    IF team_id \in DOMAIN rt THEN rt[team_id] ELSE InitialRating * EloUnit

\* dict assignment rt[key] = value
SetItem(rt, key, value) ==
    [t \in DOMAIN rt \cup {key} |-> IF t = key THEN value ELSE rt[t]]

played(r) == notna(r.home_team_score) /\ notna(r.away_team_score)

\* lines 1108-1109
exp_home(h_elo, a_elo, home_adv) == Logistic(h_elo + home_adv * EloUnit - a_elo)
exp_away(h_elo, a_elo, home_adv) == EloUnit - exp_home(h_elo, a_elo, home_adv)

\* lines 1110-1115
s_home(r) ==
    IF r.home_team_score > r.away_team_score THEN EloUnit
    ELSE IF r.home_team_score < r.away_team_score THEN 0
    ELSE EloUnit \div 2

s_away(r) ==
    IF r.home_team_score > r.away_team_score THEN 0
    ELSE IF r.home_team_score < r.away_team_score THEN EloUnit
    ELSE EloUnit \div 2

\* a plausible slip: the guard on missing scores left out, a row without a
\* result then counting as a draw
elo_update_every_row(rt, r, k_factor, home_adv) ==
    LET h_elo == get_rating(rt, r.home_team_id)
        a_elo == get_rating(rt, r.away_team_id)
        rt1   == SetItem(rt, r.home_team_id,
                         h_elo + k_factor * (s_home(r) - exp_home(h_elo, a_elo, home_adv)))
    IN  SetItem(rt1, r.away_team_id,
                a_elo + k_factor * (s_away(r) - exp_away(h_elo, a_elo, home_adv)))

\* a plausible slip: the away expectation computed from the plain rating
\* difference, leaving the home advantage out
elo_update_own_expectation(rt, r, k_factor, home_adv) ==
    LET h_elo == get_rating(rt, r.home_team_id)
        a_elo == get_rating(rt, r.away_team_id)
        rt1   == SetItem(rt, r.home_team_id,
                         h_elo + k_factor * (s_home(r) - exp_home(h_elo, a_elo, home_adv)))
    IN  SetItem(rt1, r.away_team_id,
                a_elo + k_factor * (s_away(r) - Logistic(a_elo - h_elo)))

\* lines 1103-1117: the post-match update of the ratings dict for row r
elo_update(rt, r, k_factor, home_adv) ==
    IF ~played(r) THEN rt
    ELSE
        LET h_elo == get_rating(rt, r.home_team_id)
            a_elo == get_rating(rt, r.away_team_id)
            rt1   == SetItem(rt, r.home_team_id,
                             h_elo + k_factor * (s_home(r) - exp_home(h_elo, a_elo, home_adv)))
        IN  SetItem(rt1, r.away_team_id,
                    a_elo + k_factor * (s_away(r) - exp_away(h_elo, a_elo, home_adv)))

(***************************************************************************)
(* Specification SpecElo: the loop of compute_elo_features, one iteration  *)
(* per step.                                                               *)
(***************************************************************************)
ResultPairs == {<<NaN, NaN>>, <<1, 0>>, <<0, 0>>, <<0, 1>>}

EloFixtures ==
    {Fixture(<<2023, 2024>>, 0, pr[1], pr[2], sc[1], sc[2]) :
        pr \in {x \in Teams \X Teams : x[1] # x[2]}, sc \in ResultPairs}

EloTables == {Dated(t) : t \in SeqsUpTo(EloFixtures, MaxEloRows)}

KFactors == {DefaultK, 32}
HomeAdvs == {0, DefaultHomeAdv}

InitElo ==
    /\ df \in EloTables
    /\ params \in [k_factor : KFactors, home_adv : HomeAdvs]
    /\ pc = "elo_loop"
    /\ feat = <<>>
    /\ FormIdle
    /\ EloIdle
    /\ TrainIdle

\* lines 1095-1117: one iteration of `for _, row in df.iterrows()`
EloStep ==
    /\ pc = "elo_loop"
    /\ row < Len(df)
    /\ LET r == df[row + 1]
       IN  /\ pre_elo' = Append(pre_elo,
                            [elo_home_pre |-> get_rating(ratings, r.home_team_id),
                             elo_away_pre |-> get_rating(ratings, r.away_team_id)])
           /\ ratings' = elo_update(ratings, r, params.k_factor, params.home_adv)
    /\ row' = row + 1
    /\ UNCHANGED <<df, params, pc, feat, formVars, trainVars, out, cmdVars>>

\* lines 1119-1122: the three columns are attached and the table returned
EloReturn ==
    /\ pc = "elo_loop"
    /\ row = Len(df)
    /\ feat' = [i \in 1..Len(df) |->
                    [elo_home_pre |-> pre_elo[i].elo_home_pre,
                     elo_away_pre |-> pre_elo[i].elo_away_pre,
                     elo_diff     |-> pre_elo[i].elo_home_pre - pre_elo[i].elo_away_pre]]
    /\ pc' = "elo_done"
    /\ UNCHANGED <<df, params, formVars, eloVars, trainVars, out, cmdVars>>

NextElo == EloStep \/ EloReturn

SpecElo == InitElo /\ [][NextElo]_vars

\* C2: Elo zero-sum: an iteration over a played match between two distinct
\* teams moves the home rating and the away rating by opposite amounts
C2_EloZeroSum ==
    [][(row' = row + 1 /\ played(df[row']) /\ df[row'].home_team_id # df[row'].away_team_id)
        => LET h == df[row'].home_team_id
               a == df[row'].away_team_id
           IN  get_rating(ratings', h) - get_rating(ratings, h)
                 = -(get_rating(ratings', a) - get_rating(ratings, a))]_vars

\* a played match has been consumed and has moved the home team's rating
C2_Witness ==
    /\ pc = "elo_loop"
    /\ row >= 1
    /\ played(df[row])
    /\ df[row].home_team_id # df[row].away_team_id
    /\ get_rating(ratings, df[row].home_team_id) # pre_elo[row].elo_home_pre
    /\ get_rating(ratings, df[row].home_team_id) - pre_elo[row].elo_home_pre
         = pre_elo[row].elo_away_pre - get_rating(ratings, df[row].away_team_id)

(***************************************************************************)
(* add_outcome and build_feature_matrix (src/epl_prediction.py:1067-1080,  *)
(* 1367-1390)                                                              *)
(***************************************************************************)
NoOutcome == "nan"          \* np.nan in the outcome column

\* a plausible slip: a draw labelled as a home win (>= for >)
outcome_row_ge(r) ==
    IF isna(r.home_team_score) \/ isna(r.away_team_score) THEN NoOutcome
    ELSE IF r.home_team_score >= r.away_team_score THEN "H"
    ELSE IF r.home_team_score < r.away_team_score THEN "A"
    ELSE "D"

\* lines 1068-1076
outcome_row(r) ==
    IF isna(r.home_team_score) \/ isna(r.away_team_score) THEN NoOutcome
    ELSE IF r.home_team_score > r.away_team_score THEN "H"
    ELSE IF r.home_team_score < r.away_team_score THEN "A"
    ELSE "D"

\* lines 1078-1080: the outcome column of the table
add_outcome(t) == [i \in 1..Len(t) |-> outcome_row(t[i])]

\* lines 1372-1387
feature_cols ==
    <<"elo_diff", "home_ppg_last5", "away_ppg_last5", "home_gd_avg_last5",
      "away_gd_avg_last5", "home_gf_avg_last5", "home_ga_avg_last5",
      "away_gf_avg_last5", "away_ga_avg_last5", "home_home_ppg_last5",
      "away_away_ppg_last5", "h2h_home_ppg_last5", "strength_differential",
      "xg_differential">>

RowNumbers(t) == [i \in 1..Len(t) |-> i]

\* a plausible slip: the known-outcome filter left out
build_feature_matrix_unfiltered(t) ==
    LET outcome == add_outcome(t)
        index   == RowNumbers(t)
    IN  [X |-> [index |-> index, columns |-> feature_cols],
         y |-> [index |-> index, values |-> [k \in 1..Len(index) |-> outcome[index[k]]]]]

\* lines 1367-1390: X = train_df[feature_cols], y = train_df["outcome"], where
\* train_df holds the rows of df with a known outcome; a frame is its index
\* (row labels) and its column labels, the cell (i, c) being df's
build_feature_matrix(t) ==
    LET outcome == add_outcome(t)
        index   == Filter(RowNumbers(t), [i \in 1..Len(t) |-> outcome[i] # NoOutcome])
    IN  [X |-> [index |-> index, columns |-> feature_cols],
         y |-> [index |-> index, values |-> [k \in 1..Len(index) |-> outcome[index[k]]]]]

(***************************************************************************)
(* Specification SpecMatrix: build_feature_matrix on a table whose scores  *)
(* may be missing on either side.                                          *)
(***************************************************************************)
Seasons == {<<2021, 2022>>, <<2022, 2023>>, <<2023, 2024>>}

MatrixFixtures ==
    {Fixture(s, 0, 1, 2, sc[1], sc[2]) : s \in Seasons, sc \in Scores \X Scores}

MatrixTables == {Dated(t) : t \in SeqsUpTo(MatrixFixtures, MaxMatrixRows)}

InitMatrix ==
    /\ df \in MatrixTables
    /\ params = None
    /\ pc = "raw"
    /\ feat = None
    /\ FormIdle
    /\ EloIdle
    /\ TrainIdle

\* X, y = build_feature_matrix(df)
BuildFeatureMatrix ==
    /\ pc = "raw"
    /\ feat' = add_outcome(df)
    /\ X' = build_feature_matrix(df).X
    /\ y' = build_feature_matrix(df).y
    /\ pc' = "matrix"
    /\ UNCHANGED <<df, params, formVars, eloVars, split, pipes, scores, best, disk, writes, error, out, cmdVars>>

NextMatrix == BuildFeatureMatrix

SpecMatrix == InitMatrix /\ [][NextMatrix]_vars

\* C4: outcome labelling: 'H' iff home_score > away_score, 'A' iff <, 'D' iff
\* equal, undefined iff a score is missing; a row with undefined outcome is
\* never a training row
C4_OutcomeLabelling ==
    pc = "matrix" =>
        \A i \in 1..Len(df) :
            LET hs == df[i].home_team_score
                as == df[i].away_team_score
                missing == hs = NaN \/ as = NaN
            IN  /\ (feat[i] = "H") <=> (~missing /\ hs > as)
                /\ (feat[i] = "A") <=> (~missing /\ hs < as)
                /\ (feat[i] = "D") <=> (~missing /\ hs = as)
                /\ (feat[i] = NoOutcome) <=> missing
                /\ feat[i] = NoOutcome => i \notin Range(X.index) /\ i \notin Range(y.index)

\* the matrix was built from a table holding a home win, a draw or an away
\* win next to a row with exactly one score missing
C4_Witness ==
    /\ pc = "matrix"
    /\ \E i, j \in 1..Len(df) :
        /\ feat[i] \in {"H", "D", "A"}
        /\ i \in Range(X.index)
        /\ df[j].home_team_score = NaN
        /\ df[j].away_team_score # NaN
        /\ feat[j] = NoOutcome

\* C5: X has exactly one row per input row with a known outcome and no other
\* row, its columns are the fixed feature list in its fixed order, and y holds
\* the outcome of the same rows in the same order
C5_FeatureMatrix ==
    pc = "matrix" =>
        /\ Range(X.index) = {i \in 1..Len(df) : feat[i] # NoOutcome}
        /\ Len(X.index) = Cardinality(Range(X.index))
        /\ \A k \in 1..(Len(X.index) - 1) : X.index[k] < X.index[k + 1]
        /\ X.columns = feature_cols
        /\ y.index = X.index
        /\ \A k \in 1..Len(y.index) : y.values[k] = feat[y.index[k]]

\* the matrix was built from a table with a labelled and an unlabelled row
C5_Witness ==
    /\ pc = "matrix"
    /\ Len(X.index) >= 1
    /\ Len(X.index) < Len(df)

(***************************************************************************)
(* train_model (src/epl_prediction.py:1776-1879)                           *)
(***************************************************************************)
\* line 1790: int(str(t).split("-")[0])
StartYear(season_id) == season_id[1]

\* Series.unique(): the distinct values in order of first appearance
RECURSIVE Unique(_)
Unique(q) ==
    IF q = <<>> THEN <<>>
    ELSE LET rest == Unique(SubSeq(q, 1, Len(q) - 1))
             last == q[Len(q)]
         IN  IF last \in Range(rest) THEN rest ELSE Append(rest, last)

\* y.nunique()
nunique(values) == Cardinality(Range(values))

\* lines 1788-1790
unique_seasons_sorted(t, index) ==
    SortSeq(Unique([k \in 1..Len(index) |-> t[index[k]].season_id]),
            LAMBDA a, b : StartYear(a) < StartYear(b))

\* a plausible slip: the earliest season held out instead of the latest
val_season_first(sorted) == sorted[1]

\* line 1793: unique_seasons_sorted[-1]
val_season(sorted) == sorted[Len(sorted)]

\* sklearn train_test_split(X, y, test_size=0.2, shuffle=False):
\* n_test = ceil(0.2 * n), n_train = n - n_test, the first n_train rows train
\* a plausible slip: the validation size rounded down
n_test_floor(n) == n \div 5

n_test(n) == (n + 4) \div 5

\* lines 1787-1803: the split; "" as error when it succeeds
time_split(t, index) ==
    LET sorted == unique_seasons_sorted(t, index)
        vs     == val_season(sorted)
        tr_idx == Filter(index, [k \in 1..Len(index) |-> t[index[k]].season_id # vs])
        va_idx == Filter(index, [k \in 1..Len(index) |-> t[index[k]].season_id = vs])
        n      == Len(index)
    IN  IF Len(sorted) >= 2 /\ Len(tr_idx) > 0 /\ Len(va_idx) > 0
        THEN [train_idx |-> tr_idx, val_idx |-> va_idx, error |-> ""]
        ELSE IF n < 2
        THEN [train_idx |-> <<>>, val_idx |-> <<>>,
              error |-> "RuntimeError: Not enough samples to split train/validation"]
        ELSE [train_idx |-> SubSeq(index, 1, n - n_test(n)),
              val_idx |-> SubSeq(index, n - n_test(n) + 1, n), error |-> ""]

\* the labels of y at the rows idx
Labels(t, idx) == [k \in 1..Len(idx) |-> outcome_row(t[idx[k]])]

\* clf.classes_: np.unique of the training labels, sorted
ClassOrder == <<"A", "D", "H">>
classes_of(labels) == SelectSeq(ClassOrder, LAMBDA c : c \in Range(labels))

\* Pipeline.fit(X_train, y_train): the fitted pipeline, as far as the rest of
\* the program reads it (its classifier family and clf.classes_)
fitted(family, labels) == [family |-> family, classes_ |-> classes_of(labels)]

\* the messages of the exceptions train_model can end with
NoSamplesError == "RuntimeError: No labeled samples with complete features"
ClassCountError == "RuntimeError: Training data has fewer than 2 outcome classes"
FitOneClassError == "ValueError raised by LogisticRegression.fit"
FitNumericalError == "exception raised by Pipeline.fit"
EvalError == "exception raised by log_loss"

LogLossLevels == {1, 2}     \* abstract values of log_loss, lower is better

\* lines 1861-1870: "RandomForest" or "LogisticRegression"
choose_model(sc) == IF sc.rf_acc > sc.lr_acc THEN "RandomForest" ELSE "LogisticRegression"

\* lines 1872-1877: the dict handed to joblib.dump
bundle_of_all_classes(pipe, model_type, numeric_features) ==
    [model |-> pipe, feature_cols |-> numeric_features,
     classes_ |-> ClassOrder, model_type |-> model_type]

bundle_of(pipe, model_type, numeric_features) ==
    [model |-> pipe, feature_cols |-> numeric_features,
     classes_ |-> pipe.classes_, model_type |-> model_type]

\* a bundle left at save_path by an earlier run
OldBundle ==
    bundle_of([family |-> "LogisticRegression", classes_ |-> ClassOrder],
              "LogisticRegression", feature_cols)

(***************************************************************************)
(* Specification SpecTrain: one call of train_model(df, save_path), a step *)
(* per phase.  Positions: NotTrained, Splitting, Fitting, Evaluating,      *)
(* Selecting, Persisting, Persisted, Aborted.                              *)
(***************************************************************************)
TrainFixtures ==
    {Fixture(s, 0, 1, 2, sc[1], sc[2]) : s \in Seasons, sc \in ResultPairs}

TrainTables == {Dated(t) : t \in SeqsUpTo(TrainFixtures, MaxTrainRows)}

InitTrain ==
    /\ df \in TrainTables
    /\ \E prior \in BOOLEAN :
        /\ params = [bundle_exists |-> prior]
        /\ disk = IF prior THEN OldBundle ELSE None
    /\ pc = "NotTrained"
    /\ feat = None
    /\ FormIdle
    /\ EloIdle
    /\ X = None /\ y = None /\ split = None /\ pipes = None /\ scores = None
    /\ best = None /\ writes = 0 /\ error = ""
    /\ out = None
    /\ temp_df = None /\ console = <<>>

Abort(msg) ==
    /\ pc' = "Aborted"
    /\ error' = msg

\* lines 1777-1785: the matrix is built and the two guards are run
TrainBuild ==
    /\ pc = "NotTrained"
    /\ LET m == build_feature_matrix(df)
       IN  /\ X' = m.X
           /\ y' = m.y
           /\ IF Len(m.X.index) = 0 THEN Abort(NoSamplesError)
              ELSE IF nunique(m.y.values) < 2 THEN Abort(ClassCountError)
              ELSE pc' = "Splitting" /\ error' = ""
    /\ UNCHANGED <<df, params, feat, formVars, eloVars, split, pipes, scores, best, disk, writes, out, cmdVars>>

\* lines 1787-1803
TrainSplit ==
    /\ pc = "Splitting"
    /\ LET sp == time_split(df, X.index)
       IN  IF sp.error # "" THEN Abort(sp.error) /\ UNCHANGED split
           ELSE /\ split' = [train_idx |-> sp.train_idx, val_idx |-> sp.val_idx]
                /\ pc' = "Fitting"
                /\ error' = ""
    /\ UNCHANGED <<df, params, feat, formVars, eloVars, X, y, pipes, scores, best, disk, writes, out, cmdVars>>

\* a plausible slip: the fitted forest is dumped to save_path as a checkpoint
\* before it has been evaluated
TrainFit_checkpoint ==
    /\ pc = "Fitting"
    /\ LET cls == classes_of(Labels(df, split.train_idx))
       IN  /\ pipes' = [rf |-> [family |-> "RandomForest", classes_ |-> cls],
                        lr |-> [family |-> "LogisticRegression", classes_ |-> cls]]
           /\ disk' = [model |-> [family |-> "RandomForest", classes_ |-> cls],
                       feature_cols |-> X.columns, classes_ |-> cls,
                       model_type |-> "RandomForest"]
           /\ writes' = writes + 1
           /\ IF Len(cls) < 2 THEN Abort(FitOneClassError)
              ELSE pc' = "Evaluating" /\ error' = ""
    /\ UNCHANGED <<df, params, feat, formVars, eloVars, X, y, split, scores, best, out, cmdVars>>

\* lines 1805-1847: both pipelines are fitted on the training rows.
\* RandomForestClassifier fits any label set; LogisticRegression.fit raises
\* ValueError when the training labels hold a single class.  Any other
\* failure of the library is the choice `ok`.
TrainFit ==
    /\ pc = "Fitting"
    /\ LET cls == classes_of(Labels(df, split.train_idx))
       IN  \E ok \in BOOLEAN :
            IF ~ok THEN Abort(FitNumericalError) /\ UNCHANGED pipes
            ELSE IF Len(cls) < 2 THEN Abort(FitOneClassError) /\ UNCHANGED pipes
            ELSE /\ pipes' = [rf |-> fitted("RandomForest", Labels(df, split.train_idx)),
                              lr |-> fitted("LogisticRegression", Labels(df, split.train_idx))]
                 /\ pc' = "Evaluating"
                 /\ error' = ""
    /\ UNCHANGED <<df, params, feat, formVars, eloVars, X, y, split, scores, best, disk, writes, out, cmdVars>>

\* lines 1849-1858: accuracy_score and log_loss of both pipelines on the
\* validation rows.  A pipeline can only predict a class it was fitted on;
\* the accuracy is the number of validation rows predicted right (both are
\* divided by the same len(y_val)).
TrainEvaluate ==
    /\ pc = "Evaluating"
    /\ LET yv      == Labels(df, split.val_idx)
           known   == Cardinality({k \in 1..Len(yv) : yv[k] \in Range(pipes.rf.classes_)})
           unseen  == known < Len(yv)
       IN  \/ /\ unseen
              /\ Abort(EvalError)
              /\ UNCHANGED scores
           \/ \E ra \in 0..known, la \in 0..known, rl \in LogLossLevels, ll \in LogLossLevels :
                /\ scores' = [rf_acc |-> ra, rf_ll |-> rl, lr_acc |-> la, lr_ll |-> ll]
                /\ pc' = "Selecting"
                /\ error' = ""
    /\ UNCHANGED <<df, params, feat, formVars, eloVars, X, y, split, pipes, best, disk, writes, out, cmdVars>>

\* lines 1860-1870
TrainSelect ==
    /\ pc = "Selecting"
    /\ LET model_type == choose_model(scores)
       IN  best' = [pipe |-> IF model_type = "RandomForest" THEN pipes.rf ELSE pipes.lr,
                    acc |-> IF model_type = "RandomForest" THEN scores.rf_acc ELSE scores.lr_acc,
                    ll |-> IF model_type = "RandomForest" THEN scores.rf_ll ELSE scores.lr_ll,
                    model_type |-> model_type]
    /\ pc' = "Persisting"
    /\ UNCHANGED <<df, params, feat, formVars, eloVars, X, y, split, pipes, scores, disk, writes, error, out, cmdVars>>

\* lines 1872-1879: joblib.dump(bundle, save_path) and the metrics returned
TrainPersist ==
    /\ pc = "Persisting"
    /\ disk' = bundle_of(best.pipe, best.model_type, X.columns)
    /\ writes' = writes + 1
    /\ pc' = "Persisted"
    /\ UNCHANGED <<df, params, feat, formVars, eloVars, X, y, split, pipes, scores, best, error, out, cmdVars>>

NextTrain ==
    \/ TrainBuild
    \/ TrainSplit
    \/ TrainFit
    \/ TrainEvaluate
    \/ TrainSelect
    \/ TrainPersist

SpecTrain == InitTrain /\ [][NextTrain]_vars

\* the rows of df with both scores, and the seasons they span
LabeledRows == {i \in 1..Len(df) : df[i].home_team_score # NaN /\ df[i].away_team_score # NaN}
LabeledSeasons == {df[i].season_id : i \in LabeledRows}

Increasing(q) == \A k \in 1..(Len(q) - 1) : q[k] < q[k + 1]

\* C3: season-boundary split: with labeled rows of at least 2 season_ids the
\* validation set is exactly the labeled rows of the season with the greatest
\* start year, the training set exactly the labeled rows of the other seasons,
\* both in table order
C3_SeasonSplit ==
    (split # None /\ Cardinality(LabeledSeasons) >= 2) =>
        LET latest == CHOOSE s \in LabeledSeasons : \A o \in LabeledSeasons : o[1] <= s[1]
        IN  /\ Range(split.val_idx) = {i \in LabeledRows : df[i].season_id = latest}
            /\ Range(split.train_idx) = {i \in LabeledRows : df[i].season_id # latest}
            /\ Range(split.train_idx) \cap Range(split.val_idx) = {}
            /\ Increasing(split.val_idx)
            /\ Increasing(split.train_idx)

\* a split of labeled rows of three seasons whose latest season is not the
\* last row of the table
C3_Witness ==
    /\ split # None
    /\ Cardinality(LabeledSeasons) = 3
    /\ df[Len(df)].season_id # <<2023, 2024>>
    /\ Len(split.val_idx) = 1
    /\ Len(split.train_idx) = 2

\* C6: class-count failures are named: when fewer than 2 outcome classes are
\* available, in y or in the training partition, the call aborts with the
\* error that names the class count, never with an exception of the
\* classifier's fit
C6_ClassCountNamed ==
    /\ (pc = "Aborted" /\ y # None /\ Len(y.values) > 0 /\ nunique(y.values) < 2)
            => error = ClassCountError
    /\ (pc = "Aborted" /\ split # None
          /\ nunique(Labels(df, split.train_idx)) < 2 /\ error # FitNumericalError)
            => error = ClassCountError

\* C7: model selection: the higher validation accuracy wins; on equal
\* accuracy the lower log-loss wins; on equal log-loss too the first-trained
\* candidate (RandomForest) wins; the winner is the persisted one
C7_ModelSelection ==
    pc \in {"Persisting", "Persisted"} =>
        LET want == IF scores.rf_acc > scores.lr_acc THEN "RandomForest"
                    ELSE IF scores.lr_acc > scores.rf_acc THEN "LogisticRegression"
                    ELSE IF scores.rf_ll < scores.lr_ll THEN "RandomForest"
                    ELSE IF scores.lr_ll < scores.rf_ll THEN "LogisticRegression"
                    ELSE "RandomForest"
        IN  /\ best.model_type = want
            /\ best.pipe.family = want
            /\ pc = "Persisted" => disk.model_type = want /\ disk.model.family = want

\* the order of the phases of one call
Phase(p) ==
    CASE p = "NotTrained" -> 0
      [] p = "Splitting"  -> 1
      [] p = "Fitting"    -> 2
      [] p = "Evaluating" -> 3
      [] p = "Selecting"  -> 4
      [] p = "Persisting" -> 5
      [] p = "Persisted"  -> 6
      [] p = "Aborted"    -> 7

PriorBundle == IF params.bundle_exists THEN OldBundle ELSE None

\* C8: training is all-or-nothing: the bundle is written at most once, only
\* after split, fit, evaluation and selection have completed; a call that
\* raises writes nothing and leaves the file at save_path as it was; no
\* phase is retried
C8_AllOrNothing ==
    /\ [](/\ writes <= 1
          /\ writes = 1 => /\ pc = "Persisted"
                           /\ split # None /\ pipes # None /\ scores # None /\ best # None
                           /\ disk = bundle_of(best.pipe, best.model_type, X.columns)
          /\ writes = 0 => disk = PriorBundle
          /\ pc = "Aborted" => writes = 0 /\ error # "")
    /\ [][(disk' # disk \/ writes' # writes) => (pc = "Persisting" /\ pc' = "Persisted")]_vars
    /\ [][pc' # pc => Phase(pc') > Phase(pc)]_vars

\* a call that replaced an existing bundle, and did so once
C8_Witness ==
    /\ pc = "Persisted"
    /\ writes = 1
    /\ params.bundle_exists
    /\ disk # OldBundle

(***************************************************************************)
(* load_model, predict_for_fixtures, predict_for_rows and                  *)
(* predict_single_match (src/epl_prediction.py:1884-1931, 1981-2094)       *)
(***************************************************************************)
ProbScale == 1000           \* probabilities are stored in thousandths
DefaultTop == 10            \* top: int = 10
SynthDays == 7              \* pd.Timedelta(days=7)

\* the columns of the table prepare_dataset returns, in the order the
\* builders append them (lines 1045-1059, 1119-1121, 1201-1236, 1342,
\* 1246-1251, 1307-1308)
table_columns ==
    <<"season_id", "match_id", "date", "time", "round", "wk", "home",
      "home_team_id", "away", "away_team_id", "home_team_score",
      "away_team_score", "venue", "elo_home_pre", "elo_away_pre", "elo_diff",
      "home_ppg_last5", "home_gd_avg_last5", "home_gf_avg_last5",
      "home_ga_avg_last5", "away_ppg_last5", "away_gd_avg_last5",
      "away_gf_avg_last5", "away_ga_avg_last5", "home_home_ppg_last5",
      "home_away_ppg_last5", "away_home_ppg_last5", "away_away_ppg_last5",
      "h2h_home_ppg_last5", "home_xg_for_avg", "home_xg_ag_avg",
      "away_xg_for_avg", "away_xg_ag_avg", "home_strength_rating",
      "away_strength_rating", "strength_differential", "xg_differential">>

Reverse(q) == [k \in 1..Len(q) |-> q[Len(q) + 1 - k]]

\* lines 1884-1891: (model, feature_cols, classes_, model_type)
load_model(file) ==
    [model |-> file.model, feature_cols |-> file.feature_cols,
     classes_ |-> file.classes_,
     model_type |-> IF "model_type" \in DOMAIN file THEN file.model_type
                    ELSE "LogisticRegression"]

\* a plausible slip: the columns taken in the order the table holds them
select_columns_table_order(columns, wanted) ==
    SelectSeq(columns, LAMBDA c : c \in Range(wanted))

\* frame[wanted]: the columns `wanted`, in the order of `wanted`; every one
\* of them must be a column of the frame (KeyError otherwise)
select_columns(columns, wanted) == wanted

has_columns(columns, wanted) == Range(wanted) \subseteq Range(columns)

\* the matrix handed to predict_proba: its row labels, its column labels,
\* and for every column the table column its values are read from
matrix(index, columns, source) == [index |-> index, columns |-> columns, source |-> source]

\* the probability vectors model.predict_proba can return for one row: one
\* entry per class of the fitted classifier, summing to 1
ProbVectors(k) ==
    {p \in [1..k -> {0, ProbScale \div 2, ProbScale}] : SumSeq(p) = ProbScale}

\* [f"P({c})" for c in classes_]
proba_labels(classes) == [k \in 1..Len(classes) |-> <<"P", classes[k]>>]

\* rows with no scores (isna().all(axis=1))
unscored(r) == isna(r.home_team_score) /\ isna(r.away_team_score)

\* a plausible slip: the filter on the date left out
upcoming_rows_any_date(t, today) ==
    Filter(RowNumbers(t), [i \in 1..Len(t) |-> unscored(t[i])])

\* lines 1898-1908: the row numbers of the upcoming fixtures
\* (a comparison with a null date is False)
upcoming_rows(t, today) ==
    Filter(RowNumbers(t),
           [i \in 1..Len(t) |-> unscored(t[i]) /\ notna(t[i].date) /\ t[i].date >= today])

\* sort_values("date") of row numbers of t
ByDate(t, idx) == SortSeq(idx, LAMBDA i, j : t[i].date < t[j].date)

\* .head(n)
head(q, n) == SubSeq(q, 1, IF n < Len(q) THEN n ELSE Len(q))

\* one output row: the identifying columns and the labelled probabilities
prediction(r, labels, probs) ==
    [date |-> r.date, home |-> r.home, away |-> r.away,
     season_id |-> r.season_id, labels |-> labels, probs |-> probs]

\* the bundles train_model can have left at save_path: either family, fitted
\* on training labels holding at least two classes
LabelSets == {<<"A", "D", "H">>, <<"H", "D">>, <<"A", "H">>, <<"D", "A">>}

TrainedBundles ==
    {bundle_of(fitted(f, l), f, build_feature_matrix(<<>>).X.columns) :
        f \in {"RandomForest", "LogisticRegression"}, l \in LabelSets}

(***************************************************************************)
(* Specification SpecPredict: one call of a predict_* function on a table  *)
(* and a bundle left by train_model.                                       *)
(***************************************************************************)
PredictTeams == {1, 2}
UnknownTeam == 9            \* a name no row of the table carries

PredictFixtures ==
    {Fixture(<<2023, 2024>>, 0, pr[1], pr[2], sc[1], sc[2]) :
        pr \in {x \in PredictTeams \X PredictTeams : x[1] # x[2]}, sc \in ResultPairs}

PredictTables == {Dated(t) : t \in SeqsUpTo(PredictFixtures, MaxPredictRows)}

InitPredict ==
    /\ df \in PredictTables
    /\ params \in [today : 1..(MaxPredictRows + 1),
                   columns : {table_columns, Reverse(table_columns)}]
    /\ disk \in TrainedBundles
    /\ pc = "ready"
    /\ feat = None
    /\ FormIdle
    /\ EloIdle
    /\ X = None /\ y = None /\ split = None /\ pipes = None /\ scores = None
    /\ best = None /\ writes = 0 /\ error = ""
    /\ out = None
    /\ temp_df = None /\ console = <<>>

predictFrame == <<df, params, feat, formVars, eloVars, y, split, pipes, scores, best, disk, writes, console>>

\* out.sort_values("date")
SortRows(rows) == SortSeq(rows, LAMBDA u, v : u.date < v.date)

\* float("inf"), as json.load reads the literal Infinity of a stats cache
Infinity == 9999

\* the rows of idx holding a value the pipeline refuses: check_array raises
\* ValueError("Input X contains infinity") for the whole matrix.  Feature
\* values are looked at only where the table carries them (feat # None).
unscorable(idx) ==
    IF feat = None THEN {}
    ELSE {k \in 1..Len(idx) : feat[idx[k]].strength_differential = Infinity}

\* the tail shared by predict_for_fixtures and predict_for_rows: slice the
\* feature columns, predict, label the probabilities (lines 1911-1917,
\* 1926-1931); idx are the rows to predict, in table order; the fixtures
\* variant sorts its output by date and keeps the first `keep` rows
PredictRows(file, idx, by_date, keep) ==
    LET b == load_model(file)
    IN  IF Len(idx) = 0
        THEN /\ out' = [kind |-> "frame", rows |-> <<>>]
             /\ pc' = "predicted"
             /\ UNCHANGED <<X, error>>
        ELSE IF ~has_columns(params.columns, b.feature_cols)
        THEN /\ pc' = "failed"
             /\ error' = "KeyError: column not in index"
             /\ UNCHANGED <<X, out>>
        ELSE IF unscorable(idx) # {}
        THEN /\ X' = matrix(idx, select_columns(params.columns, b.feature_cols),
                            select_columns(params.columns, b.feature_cols))
             /\ pc' = "failed"
             /\ error' = "ValueError: Input X contains infinity"
             /\ UNCHANGED out
        ELSE \E proba \in [1..Len(idx) -> ProbVectors(Len(b.model.classes_))] :
                LET sel  == select_columns(params.columns, b.feature_cols)
                    rows == [k \in 1..Len(idx) |->
                                prediction(df[idx[k]], proba_labels(b.classes_), proba[k])]
                IN  /\ X' = matrix(idx, sel, sel)
                    /\ IF Len(b.classes_) # Len(b.model.classes_)
                       THEN /\ pc' = "failed"
                            /\ error' = "ValueError: shape of passed values"
                            /\ UNCHANGED out
                       ELSE /\ out' = [kind |-> "frame",
                                       rows |-> IF by_date THEN head(SortRows(rows), keep)
                                                ELSE rows]
                            /\ pc' = "predicted"
                            /\ UNCHANGED error

\* lines 1894-1918: predict_for_fixtures(model_bundle_path, df_all, top)
PredictForFixtures ==
    /\ pc = "ready"
    /\ \E top \in {1, DefaultTop} :
        PredictRows(disk, upcoming_rows(df, params.today), TRUE, top)
    /\ UNCHANGED <<predictFrame, temp_df>>

\* lines 1921-1931 called as at lines 3128-3141: predict_for_rows(next_match,
\* model_path), next_match the first upcoming fixture dated today or later
PredictForRows ==
    /\ pc = "ready"
    /\ PredictRows(disk, head(ByDate(df, upcoming_rows(df, params.today)), 1), FALSE, 1)
    /\ UNCHANGED <<predictFrame, temp_df>>

\* df_all["season_id"].dropna().max()
max_season(t) ==
    LET ids == {t[i].season_id : i \in 1..Len(t)}
    IN  CHOOSE m \in ids : \A o \in ids : StartYear(o) <= StartYear(m)

\* .tail(1): the last row of a frame, <<>> when it is empty
tail1(q) == IF q = <<>> THEN <<>> ELSE <<q[Len(q)]>>

\* a plausible slip: any last row taken when no row carries the name
last_named_row_or_any(t, side, id, name) ==
    LET rows == Filter(t, [i \in 1..Len(t) |-> t[i][side] = name /\ notna(t[i][id])])
    IN  IF rows = <<>> THEN tail1(t) ELSE tail1(rows)

\* lines 2013-2014: df_all[df_all[side].str.lower() == name.lower()]
\* .dropna(subset=[id]).tail(1)
last_named_row(t, side, id, name) ==
    tail1(Filter(t, [i \in 1..Len(t) |-> t[i][side] = name /\ notna(t[i][id])]))

\* lines 1984-2040: the candidate fixture for (home_name, away_name): which
\* branch chose it, the row of df_all it was taken from (0 for a row made
\* up from scratch), and the one-row frame `cand` (<<>> when the function
\* returns None)
candidate(t, today, home_name, away_name) ==
    LET named(r) == r.home = home_name /\ r.away = away_name
        upcoming_matches ==
            Filter(RowNumbers(t), [i \in 1..Len(t) |-> named(t[i]) /\ unscored(t[i])])
        future_matches ==
            Filter(upcoming_matches,
                   [k \in 1..Len(upcoming_matches) |-> t[upcoming_matches[k]].date >= today])
        historical == Filter(RowNumbers(t), [i \in 1..Len(t) |-> named(t[i])])
        home_row == last_named_row(t, "home", "home_team_id", home_name)
        away_row == last_named_row(t, "away", "away_team_id", away_name)
        first_future == head(ByDate(t, future_matches), 1)
    IN  IF future_matches # <<>>
        THEN [branch |-> "future", src |-> first_future[1], cand |-> <<t[first_future[1]]>>]
        ELSE IF upcoming_matches # <<>>
        THEN [branch |-> "upcoming", src |-> upcoming_matches[1],
              cand |-> <<t[upcoming_matches[1]]>>]
        ELSE IF historical # <<>>
        THEN [branch |-> "historical", src |-> historical[1],
              cand |-> <<[t[historical[1]] EXCEPT !.date = today + SynthDays,
                                                  !.home_team_score = NaN,
                                                  !.away_team_score = NaN]>>]
        ELSE IF home_row = <<>> \/ away_row = <<>>
        THEN [branch |-> "none", src |-> 0, cand |-> <<>>]
        ELSE [branch |-> "synthetic", src |-> 0,
              cand |-> <<[Fixture(max_season(t), today + SynthDays,
                                  home_row[1].home_team_id, away_row[1].away_team_id,
                                  NaN, NaN)
                          EXCEPT !.home = home_name, !.away = away_name]>>]

\* lines 2053-2080: the table column the value of feature `col` is read
\* from (the cell of the target row, or the column mean when that is null),
\* "0.0" when the table has no such column
value_source(columns, col) == IF col \in Range(columns) THEN col ELSE "0.0"

\* lines 2042-2050: temp_df.iloc[-1] after the builders have re-sorted
\* temp_df by date (an unstable sort): a row of temp_df with the latest date
target_rows(t) ==
    {i \in 1..Len(t) : \A j \in 1..Len(t) : t[j].date <= t[i].date}

\* a plausible slip: the candidate row appended to df_all itself
df_all_appended(df_all, cand) == df_all \o cand

\* line 2042: temp_df = pd.concat([df_all, cand], ignore_index=True) builds
\* a new frame (as do .copy() at lines 1992 and 2031 and the boolean
\* selections at lines 1988 and 2008); this is df_all after the statement
df_all_after_concat(df_all, cand) == df_all

\* lines 1981-2094: predict_single_match(model_bundle_path, df_all,
\* home_name, away_name): the frame it builds, the matrix it hands to the
\* model, the value it returns, and the table it leaves to its caller
SingleMatch(file, home_name, away_name) ==
    LET b == load_model(file)
        c == candidate(df, params.today, home_name, away_name)
    IN  IF c.cand = <<>>
        THEN /\ out' = [kind |-> "none", rows |-> <<>>]
             /\ UNCHANGED <<X, temp_df, df>>
        ELSE LET n == IF Len(b.classes_) < Len(b.model.classes_)
                      THEN Len(b.classes_) ELSE Len(b.model.classes_)
             IN  \E proba \in ProbVectors(Len(b.model.classes_)),
                    target \in target_rows(df \o c.cand) :
                    /\ temp_df' = df \o c.cand
                    /\ df' = df_all_after_concat(df, c.cand)
                    /\ X' = matrix(<<target>>, b.feature_cols,
                                   [k \in 1..Len(b.feature_cols) |->
                                        value_source(params.columns, b.feature_cols[k])])
                    /\ out' = [kind |-> "series",
                               rows |-> <<prediction(c.cand[1],
                                                     head(proba_labels(b.classes_), n),
                                                     head(proba, n))>>]

PredictSingleMatch ==
    /\ pc = "ready"
    /\ \E home_name \in PredictTeams \cup {UnknownTeam},
          away_name \in PredictTeams \cup {UnknownTeam} :
        SingleMatch(disk, home_name, away_name)
    /\ pc' = "predicted"
    /\ UNCHANGED error
    /\ UNCHANGED <<params, feat, formVars, eloVars, y, split, pipes, scores, best, disk,
                   writes, console>>

NextPredict == PredictForFixtures \/ PredictForRows \/ PredictSingleMatch

SpecPredict == InitPredict /\ [][NextPredict]_vars

\* C9: every prediction returned carries exactly one probability per class of
\* the bundle's classes_ list, labelled P(c) in the recorded order, and the
\* probabilities sum to 1
C9_Probabilities ==
    pc = "predicted" =>
        \A k \in 1..Len(out.rows) :
            /\ Len(out.rows[k].probs) = Len(disk.classes_)
            /\ Len(out.rows[k].labels) = Len(disk.classes_)
            /\ \A c \in 1..Len(disk.classes_) : out.rows[k].labels[c] = <<"P", disk.classes_[c]>>
            /\ SumSeq(out.rows[k].probs) = ProbScale

\* a single-match prediction made with a bundle fitted on two classes only
C9_Witness ==
    /\ pc = "predicted"
    /\ out.kind = "series"
    /\ Len(out.rows) = 1
    /\ Len(disk.classes_) = 2
    /\ out.rows[1].probs = <<ProbScale \div 2, ProbScale \div 2>>

\* C10: feature schema stability: the bundle records the columns of the
\* training matrix, and the matrix handed to the model at inference has
\* exactly those columns in the recorded order, each read from the table
\* column of that name, whatever the column order of the table; no
\* column-not-found error is raised
C10_FeatureSchema ==
    /\ disk.feature_cols = build_feature_matrix(df).X.columns
    /\ has_columns(params.columns, disk.feature_cols) =>
        /\ pc # "failed"
        /\ error = ""
        /\ (pc = "predicted" /\ X # None) =>
            /\ X.columns = disk.feature_cols
            /\ X.source = disk.feature_cols

\* fixtures were predicted from a table whose columns are in reverse order
C10_Witness ==
    /\ pc = "predicted"
    /\ out.kind = "frame"
    /\ Len(out.rows) >= 1
    /\ X # None
    /\ params.columns = Reverse(table_columns)
    /\ params.columns # table_columns

(***************************************************************************)
(* The cmd_* handlers around the prediction functions                      *)
(* (src/epl_prediction.py:2321-2346, 2416-2443).                           *)
(***************************************************************************)
\* a file at model_path that joblib.load cannot deserialize
Corrupt == [bytes |-> "not a joblib pickle"]

\* a bundle written by an earlier version of the pipeline: no feature_cols
\* and no model_type key
LegacyBundle ==
    [model |-> fitted("LogisticRegression", ClassOrder), classes_ |-> ClassOrder]

\* lines 1884-1891: the exception load_model(path) ends with, "" when it
\* returns: joblib.load failures become ModelLoadError, a missing key is a
\* KeyError raised outside the try block
load_error(file) ==
    IF "bytes" \in DOMAIN file THEN "ModelLoadError"
    ELSE IF "model" \notin DOMAIN file THEN "KeyError: 'model'"
    ELSE IF "feature_cols" \notin DOMAIN file THEN "KeyError: 'feature_cols'"
    ELSE IF "classes_" \notin DOMAIN file THEN "KeyError: 'classes_'"
    ELSE ""

\* the formats the match caches under CACHE_MATCHES_DIR can be stored in
CacheFormats == {"none", "json.gz", "json"}

\* lines 2336, 2431: c.stem.split("_")[-1] of "matches_league9_<season>.<fmt>":
\* Path.stem strips the last suffix only, so a .json.gz file gives
\* "<season>.json", which names no season
stem_is_season(fmt) == fmt = "json"

NoSeasonsError == "RuntimeError: No seasons with matches available"

\* lines 1776-1879 as one call: the ways train_model(t, model_path) can end;
\* error "" with the bundle it wrote, else the exception and no write
train_model_outcomes(t) ==
    LET m   == build_feature_matrix(t)
        sp  == time_split(t, m.X.index)
        lab == Labels(t, sp.train_idx)
        yv  == Labels(t, sp.val_idx)
        failed(msg) == {[error |-> msg, written |-> FALSE, file |-> None]}
    IN  IF Len(m.X.index) = 0 THEN failed(NoSamplesError)
        ELSE IF nunique(m.y.values) < 2 THEN failed(ClassCountError)
        ELSE IF sp.error # "" THEN failed(sp.error)
        ELSE IF Len(classes_of(lab)) < 2 THEN failed(FitOneClassError)
        ELSE IF ~(Range(yv) \subseteq Range(lab)) THEN failed(EvalError)
        ELSE {[error |-> "", written |-> TRUE,
               file |-> bundle_of(fitted(f, lab), f, m.X.columns)] :
                    f \in {"RandomForest", "LogisticRegression"}}

\* lines 2328-2338 and 2423-2433: the block that validates the bundle and
\* retrains when load_model raises ModelLoadError.  t is the table
\* prepare_dataset builds from the cached seasons.  Gives the ways the
\* block can end: how ("ok", "exit 1", "raised"), the file then at
\* model_path, the lines printed, the exception.
validate_model(file, cache, t) ==
    LET done(how, f, lines, exc) ==
            [how |-> how, file |-> f, console |-> lines, error |-> exc]
        retraining == <<"Model file is incompatible. Retraining on cached data...">>
    IN  IF load_error(file) = "" THEN {done("ok", file, <<>>, "")}
        ELSE IF load_error(file) # "ModelLoadError"
        THEN {done("raised", file, <<>>, load_error(file))}
        ELSE IF cache = "none"
        THEN {done("exit 1", file,
                   retraining \o <<"Error: No cached data to retrain. Run 'sync' first.">>, "")}
        ELSE IF ~stem_is_season(cache)
        THEN {done("raised", file,
                   retraining \o <<"Warning: skipping season">>, NoSeasonsError)}
        ELSE {IF r.written THEN done("ok", r.file, retraining, "")
              ELSE done("raised", file, retraining, r.error) :
                    r \in train_model_outcomes(t)}

\* rolling window of compute_form_features when called without one
DefaultWindow == 5

\* lines 2416-2443: cmd_predict_match(args) with args.home, args.away in
\* params.  Positions: ready, printed (the prediction was shown),
\* "exit 1", "exit 2" (sys.exit), raised (an exception left the handler).
CmdPredictMatch ==
    /\ pc = "ready"
    /\ IF disk = None
       THEN /\ console' = <<"Error: Model not found. Train it first with 'train'.">>
            /\ pc' = "exit 1"
            /\ UNCHANGED <<disk, writes, error, X, out, temp_df, df>>
       ELSE \E v \in validate_model(disk, params.cache, df) :
            /\ disk' = v.file
            /\ writes' = IF v.file # disk THEN writes + 1 ELSE writes
            /\ error' = IF v.how = "ok" /\ params.cache # "none" /\ df = <<>>
                         THEN NoSeasonsError
                         ELSE IF v.how = "ok" /\ params.cache # "none"
                            /\ candidate(df, params.today, params.home, params.away).cand # <<>>
                            /\ Len(v.file.classes_) < 3
                         THEN "KeyError: 'P(H)'" ELSE v.error
            /\ IF v.how # "ok"
               THEN /\ pc' = v.how
                    /\ console' = v.console
                    /\ UNCHANGED <<X, out, temp_df, df>>
               ELSE IF params.cache = "none"
               THEN /\ pc' = "exit 1"
                    /\ console' = v.console \o <<"Error: No cached data. Run 'sync' first.">>
                    /\ UNCHANGED <<X, out, temp_df, df>>
               ELSE IF df = <<>>
               THEN \* line 2439: prepare_dataset found no row in any cached season
                    /\ pc' = "raised"
                    /\ console' = v.console
                    /\ UNCHANGED <<X, out, temp_df, df>>
               ELSE /\ SingleMatch(v.file, params.home, params.away)
                    /\ IF out'.kind = "none"
                       THEN /\ pc' = "exit 2"
                            /\ console' = v.console \o
                                <<"Could not infer enough data for the requested teams from cache.">>
                       ELSE IF ~({<<"P", "H">>, <<"P", "D">>, <<"P", "A">>}
                                    \subseteq Range(out'.rows[1].labels))
                       THEN /\ pc' = "raised"
                            /\ console' = v.console
                       ELSE /\ pc' = "printed"
                            /\ console' = v.console \o <<"EPL MATCH PREDICTION">>
    /\ UNCHANGED <<params, feat, formVars, eloVars, y, split, pipes, scores, best>>

(***************************************************************************)
(* Specification SpecMatch: one run of cmd_predict_match on the table      *)
(* prepare_dataset built from the caches.  Rows are MatchSpacing days      *)
(* apart, today is the day after one of them (or before the first), and a  *)
(* played match is dated before today.                                     *)
(***************************************************************************)
MaxMatchRows == 2       \* rows of the table given to cmd_predict_match
MatchSpacing == SynthDays + 1   \* days between two consecutive rows of that table

MatchResults == {<<NaN, NaN>>, <<1, 0>>, <<0, 1>>}

MatchFixtures ==
    {Fixture(<<2023, 2024>>, 0, pr[1], pr[2], sc[1], sc[2]) :
        pr \in {x \in Teams \X Teams : x[1] # x[2]}, sc \in MatchResults}

Spaced(t) == [i \in 1..Len(t) |-> [t[i] EXCEPT !.date = i * MatchSpacing]]

MatchTables == {Spaced(t) : t \in SeqsUpTo(MatchFixtures, MaxMatchRows)}

\* the bundle train_model leaves when all three outcomes were seen
FullBundle ==
    bundle_of(fitted("LogisticRegression", ClassOrder), "LogisticRegression", feature_cols)

InitMatch ==
    /\ df \in MatchTables
    /\ \E k \in 0..Len(df), home \in {1, UnknownTeam}, away \in {2, UnknownTeam} :
        params = [today |-> k * MatchSpacing + 2, columns |-> table_columns,
                  home |-> home, away |-> away, cache |-> "json.gz"]
    /\ \A i \in 1..Len(df) : ~unscored(df[i]) => df[i].date < params.today
    /\ feat = compute_form_features(df, DefaultWindow)
    /\ disk = FullBundle
    /\ pc = "ready"
    /\ FormIdle
    /\ EloIdle
    /\ X = None /\ y = None /\ split = None /\ pipes = None /\ scores = None
    /\ best = None /\ writes = 0 /\ error = ""
    /\ out = None
    /\ temp_df = None /\ console = <<>>

NextMatch == CmdPredictMatch

SpecMatch == InitMatch /\ [][NextMatch]_vars

\* the call of predict_single_match has returned or raised
MatchCalled == pc \in {"printed", "exit 2", "raised"} /\ error # NoSeasonsError

\* the unlabeled fixtures of df between the named home and away teams
NamedFixtures ==
    {i \in 1..Len(df) :
        df[i].home = params.home /\ df[i].away = params.away /\ unscored(df[i])}

FutureNamedFixtures == {i \in NamedFixtures : df[i].date >= params.today}

\* the rows of df in which the team named n plays, with the id it has there
Sightings(n) ==
    {<<df[i].date, df[i].home_team_id>> : i \in {j \in 1..Len(df) : df[j].home = n}}
        \cup {<<df[i].date, df[i].away_team_id>> : i \in {j \in 1..Len(df) : df[j].away = n}}

MostRecentIds(n) == {s[2] : s \in {r \in Sightings(n) : \A o \in Sightings(n) : o[1] <= r[1]}}

\* C11: candidate priority in predict_single_match: (a) the earliest
\* unlabeled fixture between the named teams dated today or later; (b)
\* otherwise any unlabeled fixture between them; (c) otherwise a fixture
\* dated today + 7 days carrying each team's most recent known team id
C11_CandidatePriority ==
    MatchCalled =>
        /\ FutureNamedFixtures # {} =>
            /\ temp_df # None
            /\ \E i \in FutureNamedFixtures :
                /\ \A j \in FutureNamedFixtures : df[i].date <= df[j].date
                /\ temp_df[Len(temp_df)] = df[i]
        /\ (FutureNamedFixtures = {} /\ NamedFixtures # {}) =>
            /\ temp_df # None
            /\ \E i \in NamedFixtures : temp_df[Len(temp_df)] = df[i]
        /\ (NamedFixtures = {} /\ Sightings(params.home) # {} /\ Sightings(params.away) # {}) =>
            /\ temp_df # None
            /\ temp_df[Len(temp_df)].date = params.today + SynthDays
            /\ temp_df[Len(temp_df)].home_team_id \in MostRecentIds(params.home)
            /\ temp_df[Len(temp_df)].away_team_id \in MostRecentIds(params.away)

(***************************************************************************)
(* The values predict_single_match feeds to the model (lines 2041-2085).   *)
(* The table it is given already holds every feature column; the builders  *)
(* are re-run on temp_df.                                                  *)
(***************************************************************************)
\* lines 1095-1117 as a function: the ratings dict after the first n rows
RECURSIVE ratings_after(_, _)
ratings_after(t, n) ==
    IF n = 0 THEN <<>>
    ELSE elo_update(ratings_after(t, n - 1), t[n], DefaultK, DefaultHomeAdv)

\* lines 1119-1121: elo_diff of row i
elo_diff(t, i) ==
    get_rating(ratings_after(t, i - 1), t[i].home_team_id)
        - get_rating(ratings_after(t, i - 1), t[i].away_team_id)

\* lines 1320-1322: points of the home side, 1 when a score is missing
home_pts(r) == pts([gf |-> r.home_team_score, ga |-> r.away_team_score])

\* lines 1316, 1330-1342: h2h_home_ppg_last5 of row i of t: the table is
\* sorted by date, and the mean is taken over the home points of the last
\* `window` earlier rows of the same unordered pair of teams
h2h_home_ppg(t, i, window) ==
    LET order == ByDate(t, RowNumbers(t))
        k     == CHOOSE q \in 1..Len(order) : order[q] = i
        prev  == Filter(SubSeq(order, 1, k - 1),
                        [q \in 1..(k - 1) |->
                            {t[order[q]].home_team_id, t[order[q]].away_team_id}
                                = {t[i].home_team_id, t[i].away_team_id}])
        last  == SubSeq(prev, IF Len(prev) > window THEN Len(prev) - window + 1 ELSE 1,
                        Len(prev))
    IN  IF prev = <<>> THEN NaN
        ELSE (SumSeq([q \in 1..Len(last) |-> home_pts(t[last[q]])]) * MeanScale)
                \div Len(last)

\* a value handed to the model, as the fraction num / den
Cell(v) == [num |-> v, den |-> 1]

\* lines 2063-2070: temp_df[col].mean() skipping nulls, 0.0 when all are null
column_mean(col) ==
    LET vals == Filter(col, [j \in 1..Len(col) |-> notna(col[j])])
    IN  IF vals = <<>> THEN Cell(0) ELSE [num |-> SumSeq(vals), den |-> Len(vals)]

\* lines 2055-2070: the value read for a feature from the target row: the
\* cell when it is not null, else the mean of the column
read_value(col, target) ==
    IF notna(col[target]) THEN Cell(col[target]) ELSE column_mean(col)

\* the rolling-form columns of temp_df as prepare_dataset left them: a row
\* of df_all keeps its values, the appended row has those of the row it was
\* copied from and nulls when it was made up from scratch
stale_form(t_feat, src, name) ==
    [j \in 1..(Len(t_feat) + 1) |->
        IF j <= Len(t_feat) THEN t_feat[j][name]
        ELSE IF src = 0 THEN NaN ELSE t_feat[src][name]]

\* lines 1199-1236 run on a table that already has the rolling columns:
\* merge and rename add a second column of the same label after the first;
\* lines 2056-2059 then read target_row[col] as a Series and keep
\* val.iloc[0], the column prepare_dataset computed
fed_form(t_feat, src, name, target) == read_value(stale_form(t_feat, src, name), target)

\* elo_diff is assigned in place by compute_elo_features (line 1121), so
\* the value read is the recomputed one
fed_elo_diff(t, target) == Cell(elo_diff(t, target))

\* h2h_home_ppg_last5 is assigned in place as well (line 1342)
fed_h2h(t, target) ==
    read_value([j \in 1..Len(t) |-> h2h_home_ppg(t, j, DefaultWindow)], target)

\* the value num / den equals the (scaled) number v
Equals(fed, v) == notna(v) /\ fed.num = v * fed.den

\* the rolling-form features of the model that describe the home side / the
\* away side of a match
HomeFormCols ==
    {"home_ppg_last5", "home_gd_avg_last5", "home_gf_avg_last5", "home_ga_avg_last5",
     "home_home_ppg_last5"}
AwayFormCols ==
    {"away_ppg_last5", "away_gd_avg_last5", "away_gf_avg_last5", "away_ga_avg_last5",
     "away_away_ppg_last5"}

\* a prediction was made for a fixture that is not a row of df_all
SynthesizedCall == MatchCalled /\ temp_df # None /\ NamedFixtures = {}

\* C12: for a synthesized fixture the Elo, rolling-form and head-to-head
\* values fed to the model are the ones the builders compute for the
\* appended row of temp_df, wherever the builders give that row a value
C12_RecomputedFeatures ==
    SynthesizedCall =>
        LET n      == Len(temp_df)
            target == X.index[1]
            src    == candidate(df, params.today, params.home, params.away).src
            fresh  == compute_form_features(temp_df, DefaultWindow)[n]
        IN  /\ Equals(fed_elo_diff(temp_df, target), elo_diff(temp_df, n))
            /\ \A name \in HomeFormCols \cup AwayFormCols :
                notna(fresh[name]) => Equals(fed_form(feat, src, name, target), fresh[name])
            /\ notna(h2h_home_ppg(temp_df, n, DefaultWindow)) =>
                Equals(fed_h2h(temp_df, target), h2h_home_ppg(temp_df, n, DefaultWindow))

\* C13: predict_single_match does not modify the table it is given,
\* whichever candidate path is taken: no step changes df, and the candidate
\* a second call with the same arguments selects from the table left behind
\* is the one the first call used
C13_TableUntouched ==
    /\ [][df' = df]_vars
    /\ []((MatchCalled /\ temp_df # None) =>
            temp_df = df \o candidate(df, params.today, params.home, params.away).cand)

\* a prediction was made for a fixture built from scratch
C13_Witness ==
    /\ pc = "printed"
    /\ temp_df # None
    /\ candidate(df, params.today, params.home, params.away).branch = "synthetic"
    /\ Len(temp_df) = Len(df) + 1

\* C14: unknown teams are a normal outcome: when a name given to
\* predict_single_match is carried by no row of the table, the call returns
\* None without raising, and cmd_predict_match reports it and exits with
\* status 2, no exception leaving the handler
C14_UnknownTeam ==
    (MatchCalled /\ (Sightings(params.home) = {} \/ Sightings(params.away) = {})) =>
        /\ out = [kind |-> "none", rows |-> <<>>]
        /\ error = ""
        /\ pc = "exit 2"
        /\ console # <<>>
        /\ console[Len(console)]
            = "Could not infer enough data for the requested teams from cache."

\* the away name is unknown to a table in which the home team has played
C14_Witness ==
    /\ pc = "exit 2"
    /\ params.away = UnknownTeam
    /\ Sightings(params.home) # {}
    /\ out.kind = "none"

(***************************************************************************)
(* cmd_predict_fixtures (src/epl_prediction.py:2321-2346 and the printing  *)
(* loop after it)                                                          *)
(***************************************************************************)
\* a bundle trained by an earlier version of the pipeline, whose feature
\* list names a column prepare_dataset does not produce
StaleBundle ==
    bundle_of(fitted("LogisticRegression", ClassOrder), "LogisticRegression",
              Append(feature_cols, "home_rest_days"))

\* lines 2321-2346 and the loop that prints preds, with args.top in params.
\* Positions: ready, predicted (the handler returned), failed (an exception
\* raised inside predict_for_fixtures left the handler), raised (an
\* exception of the validation block left it), "exit 1".
CmdPredictFixtures ==
    /\ pc = "ready"
    /\ IF disk = None
       THEN /\ console' = <<"Error: Model not found. Train it first with 'train'.">>
            /\ pc' = "exit 1"
            /\ UNCHANGED <<disk, writes, error, X, out>>
       ELSE \E v \in validate_model(disk, params.cache, df) :
            /\ disk' = v.file
            /\ writes' = IF v.file # disk THEN writes + 1 ELSE writes
            /\ IF v.how # "ok"
               THEN /\ pc' = v.how
                    /\ error' = v.error
                    /\ console' = v.console
                    /\ UNCHANGED <<X, out>>
               ELSE IF params.cache = "none"
               THEN /\ pc' = "exit 1"
                    /\ console' = v.console \o <<"Error: No cached data. Run 'sync' first.">>
                    /\ UNCHANGED <<X, out, error>>
               ELSE IF df = <<>>
               THEN \* line 2345: prepare_dataset found no row in any cached season
                    /\ pc' = "raised"
                    /\ error' = NoSeasonsError
                    /\ console' = v.console
                    /\ UNCHANGED <<X, out>>
               ELSE /\ PredictRows(v.file, upcoming_rows(df, params.today), TRUE, params.top)
                    /\ console' =
                        IF pc' # "predicted" THEN v.console
                        ELSE IF out'.rows = <<>>
                        THEN v.console \o <<"No upcoming fixtures found in cached data.">>
                        ELSE v.console \o <<"UPCOMING EPL FIXTURES PREDICTIONS">>
                                \o [k \in 1..Len(out'.rows) |->
                                        <<out'.rows[k].home, "vs", out'.rows[k].away>>]
    /\ UNCHANGED <<df, params, feat, formVars, eloVars, y, split, pipes, scores, best, temp_df>>

(***************************************************************************)
(* Specification SpecFixtures: one run of cmd_predict_fixtures.  The table *)
(* is sorted by date with its null dates last; a row may hold an infinite  *)
(* strength rating read from a stats cache.                                *)
(***************************************************************************)
MaxFixtureRows == 2     \* rows of the table given to cmd_predict_fixtures

FixtureResults == {<<NaN, NaN>>, <<1, 0>>}

FixtureRows ==
    {Fixture(<<2023, 2024>>, 0, pr[1], pr[2], sc[1], sc[2]) :
        pr \in {x \in PredictTeams \X PredictTeams : x[1] # x[2]}, sc \in FixtureResults}

\* sort_values puts the rows whose date could not be parsed last
NullDatesFrom(t, k) == [i \in 1..Len(t) |-> IF i > k THEN [t[i] EXCEPT !.date = NaN] ELSE t[i]]

FixtureTables ==
    {NullDatesFrom(Dated(t), k) : t \in SeqsUpTo(FixtureRows, MaxFixtureRows),
                                  k \in 0..MaxFixtureRows}

InitFixtures ==
    /\ df \in FixtureTables
    /\ params \in [today : 1..(MaxFixtureRows + 1), top : {1, DefaultTop},
                   columns : {table_columns}, cache : CacheFormats]
    /\ \E bad \in 0..Len(df) :
        feat = [i \in 1..Len(df) |->
                    [strength_differential |-> IF i = bad THEN Infinity ELSE 0]]
    /\ \E file \in {"absent", "full", "corrupt", "legacy", "stale"} :
        disk = CASE file = "absent"  -> None
                 [] file = "full"    -> FullBundle
                 [] file = "corrupt" -> Corrupt
                 [] file = "legacy"  -> LegacyBundle
                 [] file = "stale"   -> StaleBundle
    /\ pc = "ready"
    /\ FormIdle
    /\ EloIdle
    /\ X = None /\ y = None /\ split = None /\ pipes = None /\ scores = None
    /\ best = None /\ writes = 0 /\ error = ""
    /\ out = None
    /\ temp_df = None /\ console = <<>>

NextFixtures == CmdPredictFixtures

SpecFixtures == InitFixtures /\ [][NextFixtures]_vars

\* the rows of df with both scores null and a date on or after today
Eligible ==
    {i \in 1..Len(df) : unscored(df[i]) /\ notna(df[i].date) /\ df[i].date >= params.today}

Min(a, b) == IF a < b THEN a ELSE b

\* output row k of the call shows row i of the table
Shows(k, i) ==
    /\ out.rows[k].date = df[i].date
    /\ out.rows[k].home = df[i].home
    /\ out.rows[k].away = df[i].away

\* C15: predict_for_fixtures(top=N) returns exactly the min(N, n) earliest
\* of the n rows with both scores null and a date on or after today, in
\* ascending date order; no other row appears
C15_TopFixtures ==
    pc = "predicted" =>
        /\ Len(out.rows) = Min(params.top, Cardinality(Eligible))
        /\ \A k \in 1..Len(out.rows) : \E i \in Eligible : Shows(k, i)
        /\ \A k \in 1..(Len(out.rows) - 1) : out.rows[k].date < out.rows[k + 1].date
        /\ \A i \in Eligible :
            (\A k \in 1..Len(out.rows) : ~Shows(k, i)) =>
                \A k \in 1..Len(out.rows) : out.rows[k].date <= df[i].date

\* two fixtures were eligible and only the earlier one was asked for
C15_Witness ==
    /\ pc = "predicted"
    /\ params.top = 1
    /\ Cardinality(Eligible) = 2
    /\ Len(out.rows) = 1

\* C16: in a batch predict-fixtures run made with a bundle that fits the
\* table, a fixture whose features cannot be scored never aborts the run:
\* the handler returns, and every other upcoming fixture (all of them
\* fitting in the requested top) has its prediction in the output
C16_BadRowSkipped ==
    (pc # "ready" /\ disk = FullBundle /\ params.cache # "none" /\ df # <<>>) =>
        /\ pc = "predicted"
        /\ error = ""
        /\ Cardinality(Eligible) <= params.top =>
            \A i \in Eligible :
                feat[i].strength_differential # Infinity =>
                    \E k \in 1..Len(out.rows) : Shows(k, i)

(***************************************************************************)
(* Dataset construction: build_season_matches_with_scores,                 *)
(* load_or_fetch_matches, build_matches_dataframe and prepare_dataset      *)
(* (src/epl_prediction.py:820-933, 1040-1064, 1721-1739).                  *)
(*                                                                         *)
(* A raw row is what the JSON of a cache file or of a team schedule holds: *)
(* its date is a day number, NaN for a JSON null, or Unparsable for a      *)
(* string pandas cannot read as a date; a missing team id or name is       *)
(* NoTeam.  A season of the environment is a record                        *)
(*   season_id : the season, cached : the rows of its match cache file     *)
(*   (None when there is no file), teams : where a team list can come from *)
(*   ("api": standings, team-season-stats or the league's match list       *)
(*   answer; "schedule files": only team_schedule_* cache files exist;     *)
(*   "none": neither), schedule : the home rows the team schedules give.   *)
(***************************************************************************)
Unparsable == -1            \* a date string pd.to_datetime cannot parse
NoTeam == 0                 \* a missing team id or name (r.get(...) is None)

RawRow(s, id, d, w, hs, as) ==
    [season_id |-> s, match_id |-> id, date |-> d, wk |-> w,
     home |-> 1, home_team_id |-> 1, away |-> 2, away_team_id |-> 2,
     home_team_score |-> hs, away_team_score |-> as]

\* a row of a league match list that carries the ids but no team name
Anonymous(r) == [r EXCEPT !.home = NoTeam, !.away = NoTeam]

\* lines 910-916, has_scores: some row has both scores
has_scores(rows) ==
    /\ rows # None
    /\ \E i \in 1..Len(rows) :
            notna(rows[i].home_team_score) /\ notna(rows[i].away_team_score)

\* lines 822-867: the team map is filled from the first source that answers
team_map_found(env) ==
    \/ env.teams = "api"
    \/ /\ env.cached # None
       /\ \E i \in 1..Len(env.cached) :
            \/ env.cached[i].home_team_id # NoTeam /\ env.cached[i].home # NoTeam
            \/ env.cached[i].away_team_id # NoTeam /\ env.cached[i].away # NoTeam
    \/ env.teams = "schedule files"

TeamListError == "RuntimeError: Could not determine team list"

\* lines 868-904: raise when no team is known, else the home rows of the
\* team schedules
build_season_matches_with_scores(env) ==
    IF ~team_map_found(env)
    THEN [error |-> TeamListError, rows |-> <<>>]
    ELSE [error |-> "", rows |-> env.schedule]

\* season ids compare as strings: "2022-2023" < "2023-2024"
season_ge(a, b) == a[1] >= b[1]

\* lines 906-933: the cache answers for a current season or when it has
\* scores; otherwise the season is built from team schedules and the
\* result written to the cache
load_or_fetch_matches(env, current_season) ==
    IF env.cached # None /\ env.cached # <<>> /\ season_ge(env.season_id, current_season)
    THEN [error |-> "", rows |-> env.cached, written |-> FALSE]
    ELSE IF has_scores(env.cached)
    THEN [error |-> "", rows |-> env.cached, written |-> FALSE]
    ELSE LET built == build_season_matches_with_scores(env)
         IN  [error |-> built.error, rows |-> built.rows, written |-> built.error = ""]

\* line 1062: pd.to_datetime(errors="coerce")
to_datetime(d) == IF d >= 0 THEN d ELSE NaN

\* line 1063: row a sorts before row b; a null date sorts after every date,
\* a null week after every week of the same date
sorts_before(a, b) ==
    LET key(r) == <<IF isna(r.date) THEN 1 ELSE 0, r.date,
                    IF isna(r.wk) THEN 1 ELSE 0, r.wk>>
        ka == key(a)
        kb == key(b)
        first == CHOOSE k \in 1..5 : /\ k = 5 \/ ka[k] # kb[k]
                                     /\ \A j \in 1..(k - 1) : ka[j] = kb[j]
    IN  first < 5 /\ ka[first] < kb[first]

\* line 1063: sort_values(["date", "wk"]) goes through lexsort, which keeps
\* the relative order of rows with equal keys: insertion of recs[n] after the
\* last row that does not sort after it
RECURSIVE sort_values(_, _)
sort_values(recs, n) ==
    IF n = 0 THEN <<>>
    ELSE LET done == sort_values(recs, n - 1)
             r    == recs[n]
             at   == Cardinality({i \in 1..Len(done) : ~sorts_before(r, done[i])})
         IN  SubSeq(done, 1, at) \o <<r>> \o SubSeq(done, at + 1, Len(done))

RECURSIVE Flatten(_)
Flatten(lists) == IF lists = <<>> THEN <<>> ELSE Head(lists) \o Flatten(Tail(lists))

\* lines 1040-1064: the records of all seasons in dict order, dates parsed,
\* then sorted by (date, wk)
build_matches_dataframe(all_season_rows) ==
    LET records == Flatten(all_season_rows)
        parsed  == [i \in 1..Len(records) |->
                        [records[i] EXCEPT !.date = to_datetime(records[i].date)]]
    IN  sort_values(parsed, Len(parsed))

\* lines 1721-1739: every requested season is loaded; a season whose load
\* raises is reported on the console and contributes no rows; the call
\* raises only when no season contributed a row
prepare_dataset(envs, current_season) ==
    LET loaded   == [i \in 1..Len(envs) |-> load_or_fetch_matches(envs[i], current_season)]
        all_rows == [i \in 1..Len(envs) |->
                        IF loaded[i].error = "" THEN loaded[i].rows ELSE <<>>]
        warned   == Filter([i \in 1..Len(envs) |->
                                <<"Warning: skipping season", envs[i].season_id,
                                  loaded[i].error>>],
                           [i \in 1..Len(envs) |-> loaded[i].error # ""])
        cache    == [i \in 1..Len(envs) |->
                        IF loaded[i].written
                        THEN [envs[i] EXCEPT !.cached = loaded[i].rows]
                        ELSE envs[i]]
    IN  [error   |-> IF Flatten(all_rows) = <<>> THEN NoSeasonsError ELSE "",
         console |-> warned,
         cache   |-> cache,
         df      |-> IF Flatten(all_rows) = <<>> THEN None
                     ELSE build_matches_dataframe(all_rows)]

(***************************************************************************)
(* Bundle incompatibility in cmd_predict_fixtures (SpecFixtures)           *)
(***************************************************************************)
\* the file at model_path cannot be deserialized, lacks a bundle key, or
\* lists a feature column the table does not have
Incompatible(file) ==
    \/ load_error(file) # ""
    \/ ~has_columns(params.columns, load_model(file).feature_cols)

RetrainLine == "Model file is incompatible. Retraining on cached data..."

\* the exceptions a bundle of another schema ends the handler with
SchemaErrors ==
    {"KeyError: 'model'", "KeyError: 'feature_cols'", "KeyError: 'classes_'",
     "KeyError: column not in index"}

\* C18: a run of cmd_predict_fixtures that starts with an incompatible
\* bundle, cached history and a fixture to predict announces and runs a
\* retrain, and the
\* incompatibility never leaves the handler as an exception
C18_IncompatibleRetrains ==
    [][(pc = "ready" /\ disk # None /\ Incompatible(disk) /\ params.cache # "none"
            /\ Eligible # {})
        => /\ console' # <<>>
           /\ console'[1] = RetrainLine
           /\ error' \notin SchemaErrors]_vars

(***************************************************************************)
(* The rows of the tables the feature builders return                      *)
(* (src/epl_prediction.py:1083-1122, 1125-1238, 1241-1310, 1313-1343).     *)
(* Each builder works on df.copy(); the appended columns are specified     *)
(* above, here the table is followed row by row.                           *)
(***************************************************************************)
\* lines 1144-1154: the rows of long_df with this team_id and date; the
\* merge keys of two rows are equal also when both dates are null
appearances(t, team, date) ==
    Cardinality({i \in 1..Len(t) : t[i].home_team_id = team /\ t[i].date = date})
    + Cardinality({i \in 1..Len(t) : t[i].away_team_id = team /\ t[i].date = date})

\* line 1185: ha_timeline (one row per appearance) left-merged with long_df
\* on (team_id, date): the rows of ha_merge with this team_id and date
ha_merge_rows(t, team, date) == appearances(t, team, date) * appearances(t, team, date)

RECURSIVE Repeat(_, _)
Repeat(r, n) == IF n = 0 THEN <<>> ELSE <<r>> \o Repeat(r, n - 1)

\* a left merge keeps the left rows in order and gives one output row per
\* matching right row (every left row has at least one: its own appearance)
RECURSIVE left_merge(_, _)
left_merge(t, matches) ==
    IF t = <<>> THEN <<>>
    ELSE Repeat(Head(t), matches[1])
            \o left_merge(Tail(t), [i \in 1..(Len(t) - 1) |-> matches[i + 1]])

\* lines 1201-1236: the four merges of compute_form_features, on the home
\* key and the away key with long_df, then with ha_merge
form_rows(t) ==
    left_merge(t, [i \in 1..Len(t) |->
        appearances(t, t[i].home_team_id, t[i].date)
        * appearances(t, t[i].away_team_id, t[i].date)
        * ha_merge_rows(t, t[i].home_team_id, t[i].date)
        * ha_merge_rows(t, t[i].away_team_id, t[i].date)])

\* t without the first of its rows equal to r
RemoveOne(t, r) ==
    LET i == CHOOSE k \in 1..Len(t) : t[k] = r /\ \A j \in 1..(k - 1) : t[j] # r
    IN  SubSeq(t, 1, i - 1) \o SubSeq(t, i + 1, Len(t))

\* the earliest date of a non-empty table, the null date when it has no other
first_date(t) ==
    LET dates == {t[i].date : i \in 1..Len(t)} \ {NaN}
    IN  IF dates = {} THEN NaN ELSE CHOOSE d \in dates : \A e \in dates : d <= e

\* line 1316: sort_values("date") with the default quicksort: ascending
\* dates, null dates last, rows of equal date in any order
RECURSIVE date_sorted(_)
date_sorted(t) ==
    IF t = <<>> THEN {<<>>}
    ELSE LET day    == first_date(t)
             firsts == {t[i] : i \in {k \in 1..Len(t) : t[k].date = day}}
         IN  UNION {{<<r>> \o rest : rest \in date_sorted(RemoveOne(t, r))} : r \in firsts}

\* line 1326: the key of the unordered pair of teams of a row
pair(r) == {r.home_team_id, r.away_team_id}

\* lines 1331-1341: the dict last_meetings after the loop has consumed the
\* first n rows of the sorted table: per pair, the home points of its rows
RECURSIVE last_meetings(_, _)
last_meetings(t, n) ==
    IF n = 0 THEN <<>>
    ELSE LET seen     == last_meetings(t, n - 1)
             pts_list == IF pair(t[n]) \in DOMAIN seen THEN seen[pair(t[n])] ELSE <<>>
         IN  SetItem(seen, pair(t[n]), Append(pts_list, home_pts(t[n])))

\* a plausible slip: the row's own meeting appended before its feature is
\* computed
meetings_with_own(t, n) == last_meetings(t, n)

\* lines 1335-1337: the dict as row n reads it, before its own append
meetings_seen(t, n) == last_meetings(t, n - 1)

\* lines 1335-1338: the value appended to h2h_ppg for row n
h2h_ppg(t, n, window) ==
    LET seen     == meetings_seen(t, n)
        pts_list == IF pair(t[n]) \in DOMAIN seen THEN seen[pair(t[n])] ELSE <<>>
    IN  IF pts_list = <<>> THEN NaN ELSE MeanOf(LastOf(pts_list, window))

\* compute_elo_features(df): lines 1087, 1119-1122
ComputeEloFeatures ==
    /\ pc = "table"
    /\ out' = [kind |-> "table", rows |-> df]
    /\ pc' = "compute_elo_features"
    /\ UNCHANGED <<df, params, feat, formVars, eloVars, trainVars, cmdVars>>

\* compute_form_features(df): lines 1127, 1201-1238
ComputeFormFeatures ==
    /\ pc = "table"
    /\ out' = [kind |-> "table", rows |-> form_rows(df)]
    /\ pc' = "compute_form_features"
    /\ UNCHANGED <<df, params, feat, formVars, eloVars, trainVars, cmdVars>>

\* compute_head_to_head_features(df): lines 1315-1316, 1342-1343
ComputeHeadToHeadFeatures ==
    /\ pc = "table"
    /\ \E sorted \in date_sorted(df) :
        /\ out' = [kind |-> "table", rows |-> sorted,
                   last_meetings |-> last_meetings(sorted, Len(sorted))]
        /\ feat' = [n \in 1..Len(sorted) |->
                        [h2h_home_ppg_last5 |-> h2h_ppg(sorted, n, params.window)]]
    /\ pc' = "compute_head_to_head_features"
    /\ UNCHANGED <<df, params, formVars, eloVars, trainVars, cmdVars>>

\* compute_advanced_features(df, client): lines 1243, 1293-1310
ComputeAdvancedFeatures ==
    /\ pc = "table"
    /\ out' = [kind |-> "table", rows |-> df]
    /\ pc' = "compute_advanced_features"
    /\ UNCHANGED <<df, params, feat, formVars, eloVars, trainVars, cmdVars>>

\* prepare_dataset(client, seasons) as cmd_train and the predict commands
\* call it: the table of the loaded seasons, then the feature chain of
\* lines 1735-1738, whose form merges and date sort decide the rows returned
PrepareDataset ==
    /\ pc = "requested"
    /\ LET res == prepare_dataset(params.seasons, params.current_season)
       IN  /\ pc' = IF res.error = "" THEN "returned" ELSE "raised"
           /\ error' = res.error
           /\ console' = res.console
           /\ params' = [params EXCEPT !.seasons = res.cache]
           /\ IF res.error # "" THEN df' = None
              ELSE \E sorted \in date_sorted(form_rows(res.df)) : df' = sorted
    /\ UNCHANGED <<feat, formVars, eloVars, X, y, split, pipes, scores, best,
                   disk, writes, out, temp_df>>

(***************************************************************************)
(* Specification of prepare_dataset: one call over up to MaxSeasons        *)
(* requested seasons, each in any state of its cache and team sources.     *)
(***************************************************************************)
MaxSeasons == 2

\* the day a season's one listed match is played
SeasonDay(s) == s[1] - 2020

FixtureRow(s) == RawRow(s, s[1], SeasonDay(s), 1, NaN, NaN)
ResultRow(s) == RawRow(s, s[1], SeasonDay(s), 1, 1, 0)

SeasonEnvs(s) ==
    [season_id : {s},
     cached    : {None, <<>>, <<FixtureRow(s)>>, <<Anonymous(FixtureRow(s))>>,
                  <<ResultRow(s)>>},
     teams     : {"none", "api", "schedule files"},
     schedule  : {<<>>, <<ResultRow(s)>>}]

\* the requested seasons in ascending order, as the sorted cache listing
\* gives them
SeasonLists ==
    {q \in SeqsUpTo(UNION {SeasonEnvs(s) : s \in Seasons}, MaxSeasons) :
        \A i \in 1..(Len(q) - 1) : q[i].season_id[1] < q[i + 1].season_id[1]}

InitDataset ==
    /\ params \in [seasons : SeasonLists, current_season : Seasons]
    /\ df = None
    /\ pc = "requested"
    /\ feat = None
    /\ FormIdle
    /\ EloIdle
    /\ TrainIdle

NextDataset == PrepareDataset

SpecDataset == InitDataset /\ [][NextDataset]_vars

\* season i of the request cannot be served from its cache and no source
\* names a team of it
NoTeamResolved(env) ==
    /\ ~(env.cached # None /\ env.cached # <<>>
            /\ season_ge(env.season_id, params.current_season))
    /\ ~has_scores(env.cached)
    /\ ~team_map_found(env)

\* C17: when build_season_matches_with_scores finds no team for a requested
\* season, prepare_dataset fails with that error: it does not return a
\* table and it prints no warning about a skipped season
C17_NoTeamIsFatal ==
    (pc # "requested" /\ \E i \in 1..Len(params.seasons) : NoTeamResolved(params.seasons[i]))
        => /\ pc = "raised"
           /\ error = TeamListError
           /\ console = <<>>

(***************************************************************************)
(* Specification SpecBuilders: one builder applied to a table as           *)
(* build_matches_dataframe leaves it: ascending dates, null dates last,    *)
(* several rows of one date allowed.                                       *)
(***************************************************************************)
MaxBuilderRows == 2

BuilderDates == {1, 2, NaN}

BuilderFixtures ==
    {Fixture(<<2023, 2024>>, d, pr[1], pr[2], sc[1], sc[2]) :
        d \in BuilderDates, pr \in {<<1, 2>>, <<1, 3>>, <<2, 1>>},
        sc \in {<<NaN, NaN>>, <<1, 0>>}}

BuilderTables ==
    {t \in SeqsUpTo(BuilderFixtures, MaxBuilderRows) : t \in date_sorted(t)}

InitBuilders ==
    /\ df \in BuilderTables
    /\ params = [window |-> DefaultWindow]
    /\ pc = "table"
    /\ feat = None
    /\ FormIdle
    /\ EloIdle
    /\ TrainIdle

NextBuilders ==
    \/ ComputeEloFeatures
    \/ ComputeFormFeatures
    \/ ComputeHeadToHeadFeatures
    \/ ComputeAdvancedFeatures

SpecBuilders == InitBuilders /\ [][NextBuilders]_vars

\* how many rows of table t equal row r
Copies(r, t) == Cardinality({i \in 1..Len(t) : t[i] = r})

\* C19: the table a feature builder returns has exactly one row per row of
\* its input, each with the match columns it had, also when a team has two
\* rows of one date or rows with null dates
C19_OneRowPerMatch ==
    pc # "table" =>
        /\ Len(out.rows) = Len(df)
        /\ \A i \in 1..Len(df) : Copies(df[i], out.rows) = Copies(df[i], df)

(***************************************************************************)
(* Specification SpecFrame: build_matches_dataframe on the rows of two     *)
(* seasons.  The first season is played on days 1 and 2, the second on day *)
(* 3; a date may be null or unparsable; match_id numbers the rows in input *)
(* order.                                                                  *)
(***************************************************************************)
MaxSeasonRows == 2

Weeks == {1, 2}

FrameSeasons == <<<<2022, 2023>>, <<2023, 2024>>>>

\* the rows of season n of the input, with any match_id
SeasonRows(n, count) ==
    [1..count -> {RawRow(FrameSeasons[n], 0, d, w, NaN, NaN) :
                    d \in (IF n = 1 THEN {1, 2} ELSE {3}) \cup {NaN, Unparsable},
                    w \in Weeks}]

\* match_id = position of the row in the input
Numbered(rows, from) == [i \in 1..Len(rows) |-> [rows[i] EXCEPT !.match_id = from + i]]

FrameInputs ==
    {<<Numbered(a, 0), Numbered(b, Len(a))>> :
        a \in UNION {SeasonRows(1, n) : n \in 1..MaxSeasonRows},
        b \in UNION {SeasonRows(2, n) : n \in 0..1}}

InitFrame ==
    /\ params \in [all_season_rows : FrameInputs]
    /\ df = None
    /\ pc = "records"
    /\ feat = None
    /\ FormIdle
    /\ EloIdle
    /\ TrainIdle

\* build_matches_dataframe(all_season_rows): lines 1040-1064
BuildMatchesDataframe ==
    /\ pc = "records"
    /\ df' = build_matches_dataframe(params.all_season_rows)
    /\ pc' = "built"
    /\ UNCHANGED <<params, feat, formVars, eloVars, trainVars, out, cmdVars>>

NextFrame == BuildMatchesDataframe

SpecFrame == InitFrame /\ [][NextFrame]_vars

\* rows a and b have the same date (or both none) and the same week
SameKey(a, b) == a.date = b.date /\ a.wk = b.wk

\* row a may stand before row b in a table ascending by (date, week), the
\* rows without a date at the end
Ascending(a, b) ==
    \/ isna(b.date)
    \/ notna(a.date) /\ a.date < b.date
    \/ notna(a.date) /\ a.date = b.date /\ a.wk <= b.wk

\* C20: the table build_matches_dataframe returns is ascending by (date,
\* week), rows of equal key stand in input order, and the rows of each
\* season form one contiguous block, also when dates are missing or
\* unparsable
C20_SortedSeasonBlocks ==
    pc = "built" =>
        /\ \A i, j \in 1..Len(df) : i < j => Ascending(df[i], df[j])
        /\ \A i, j \in 1..Len(df) :
                (i < j /\ SameKey(df[i], df[j])) => df[i].match_id < df[j].match_id
        /\ \A i, j, k \in 1..Len(df) :
                (i < j /\ j < k /\ df[i].season_id = df[k].season_id)
                    => df[j].season_id = df[i].season_id

(***************************************************************************)
(* The builder chain run twice (src/epl_prediction.py:1734-1737 on the     *)
(* table of lines 1040-1064).  Nothing in the chain reads the clock or     *)
(* iterates a set; dicts iterate in insertion order.  The one step whose   *)
(* result the code does not pin down is the single-key sort_values("date") *)
(* of compute_head_to_head_features: numpy's quicksort leaves the order of *)
(* rows of equal date to the algorithm of the installed build, which is a  *)
(* function of its input.                                                  *)
(***************************************************************************)
\* the orders an installed sort can leave rows of equal date in
TieRules == {"input order", "reversed"}

\* a plausible slip: the order of equal dates drawn anew at every run
tie_rule_by_clock(build, clock) ==
    IF clock % 2 = 0 THEN "input order" ELSE "reversed"

\* line 1316: the tie order is a property of the build, not of the run
tie_rule(build, clock) == build

\* ascending dates, null dates last, rows of equal date in input order
RECURSIVE stable_by_date(_, _)
stable_by_date(t, n) ==
    IF n = 0 THEN <<>>
    ELSE LET done   == stable_by_date(t, n - 1)
             r      == t[n]
             before == Cardinality({i \in 1..Len(done) :
                            \/ isna(r.date)
                            \/ notna(done[i].date) /\ done[i].date <= r.date})
         IN  SubSeq(done, 1, before) \o <<r>> \o SubSeq(done, before + 1, Len(done))

\* line 1316: sort_values("date") under a tie rule
quicksort(t, rule) ==
    IF rule = "input order" THEN stable_by_date(t, Len(t))
    ELSE stable_by_date(Reverse(t), Len(t))

\* lines 1119-1121: the three Elo columns of row i of t
elo_columns(t, i) ==
    LET rt == ratings_after(t, i - 1)
    IN  [elo_home_pre |-> get_rating(rt, t[i].home_team_id),
         elo_away_pre |-> get_rating(rt, t[i].away_team_id),
         elo_diff     |-> elo_diff(t, i)]

\* lines 1734-1737: build_matches_dataframe, compute_elo_features,
\* compute_form_features, compute_head_to_head_features on raw input whose
\* teams appear once per date (every merge is one to one)
builder_chain(all_season_rows, rule) ==
    LET t      == build_matches_dataframe(all_season_rows)
        form   == compute_form_features(t, DefaultWindow)
        wide   == [i \in 1..Len(t) |-> t[i] @@ elo_columns(t, i) @@ form[i]]
        sorted == quicksort(wide, rule)
    IN  [i \in 1..Len(sorted) |->
            sorted[i] @@ [h2h_home_ppg_last5 |-> h2h_home_ppg(sorted, i, DefaultWindow)]]

(***************************************************************************)
(* Specification SpecChain: the chain run at two times on one raw input.   *)
(***************************************************************************)
MaxChainRows == 2

ChainResults == {<<NaN, NaN>>, <<1, 0>>, <<0, 0>>}

ChainRow(d, pr, sc) ==
    [RawRow(<<2023, 2024>>, 0, d, 1, sc[1], sc[2])
        EXCEPT !.home = pr[1], !.home_team_id = pr[1],
               !.away = pr[2], !.away_team_id = pr[2]]

ChainRows ==
    {ChainRow(d, pr, sc) : d \in {1, 2}, pr \in {<<1, 2>>, <<2, 1>>, <<3, 4>>},
                           sc \in ChainResults}

\* no team has two rows of one date
OncePerDate(rows) ==
    \A i, j \in 1..Len(rows) :
        (i # j /\ rows[i].date = rows[j].date) =>
            {rows[i].home_team_id, rows[i].away_team_id}
                \cap {rows[j].home_team_id, rows[j].away_team_id} = {}

ChainInputs ==
    {<<Numbered(rows, 0)>> : rows \in {q \in SeqsUpTo(ChainRows, MaxChainRows) :
                                            q # <<>> /\ OncePerDate(q)}}

InitChain ==
    /\ params \in [all_season_rows : ChainInputs, build : TieRules, clock : {0, 1}]
    /\ df = None
    /\ pc = "raw"
    /\ feat = None
    /\ FormIdle
    /\ EloIdle
    /\ TrainIdle

\* the first run of the chain; its table is kept in out
RunChainOnce ==
    /\ pc = "raw"
    /\ out' = builder_chain(params.all_season_rows,
                            tie_rule(params.build, params.clock))
    /\ params' = [params EXCEPT !.clock = params.clock + 1]
    /\ pc' = "once"
    /\ UNCHANGED <<df, feat, formVars, eloVars, trainVars, cmdVars>>

\* the second run, later, on the same raw input; its table is kept in
\* temp_df
RunChainAgain ==
    /\ pc = "once"
    /\ temp_df' = builder_chain(params.all_season_rows,
                                tie_rule(params.build, params.clock))
    /\ pc' = "twice"
    /\ UNCHANGED <<df, params, feat, formVars, eloVars, trainVars, out, console>>

NextChain == RunChainOnce \/ RunChainAgain

SpecChain == InitChain /\ [][NextChain]_vars

team_strengths ==
    ("liverpool" :> 85) @@ ("manchester city" :> 88) @@ ("arsenal" :> 82)
    @@ ("chelsea" :> 78) @@ ("tottenham" :> 75) @@ ("manchester united" :> 72)
    @@ ("newcastle" :> 70) @@ ("aston villa" :> 68) @@ ("brighton" :> 65)
    @@ ("west ham" :> 60) @@ ("fulham" :> 58) @@ ("crystal palace" :> 55)
    @@ ("brentford" :> 53) @@ ("nottingham forest" :> 50) @@ ("everton" :> 48)
    @@ ("leicester" :> 45) @@ ("southampton" :> 42) @@ ("ipswich" :> 40)
    @@ ("wolverhampton" :> 52) @@ ("bournemouth" :> 54)

\* names as they are typed: other spellings of case, padding, names of the
\* validation list that the strength table spells differently, a name of no
\* team and the empty name
TypedNames ==
    {"Liverpool", "ARSENAL", " chelsea ", "leicester city", "ipswich town",
     "leeds", ""}

\* str.lower() of every name of the model
lower(name) ==
    CASE name = "Liverpool" -> "liverpool"
      [] name = "ARSENAL"   -> "arsenal"
      [] name = "Man City"  -> "man city"
      [] name = " Spurs "   -> " spurs "
      [] OTHER              -> name

DefaultStrength == 50       \* team_strengths.get(..., 0.5)
HomeAdvantage == 10         \* + 0.1
WinShare == 800             \* * 0.8, of ProbScale

\* dict.get(name, 0.5)
strength_of(name) ==
    IF name \in DOMAIN team_strengths THEN team_strengths[name] ELSE DefaultStrength

\* a plausible slip: the draw left out of the normalising total
total_prob_of_wins(home_win_prob, draw_prob, away_win_prob) ==
    home_win_prob + away_win_prob

\* line 591
total_prob(home_win_prob, draw_prob, away_win_prob) ==
    home_win_prob + draw_prob + away_win_prob

\* lines 577-613
predict_basic(home_team, away_team) ==
    LET home_strength  == strength_of(lower(home_team)) + HomeAdvantage
        away_strength  == strength_of(lower(away_team))
        sum            == home_strength + away_strength
        total_strength == IF sum = 0 THEN 100 ELSE sum
        hw    == (home_strength * WinShare) \div total_strength
        aw    == (away_strength * WinShare) \div total_strength
        dr    == ProbScale - hw - aw
        total == total_prob(hw, dr, aw)
        p     == IF total = 0 THEN <<333, 334, 333>>
                 ELSE <<(hw * ProbScale) \div total, (dr * ProbScale) \div total,
                        (aw * ProbScale) \div total>>
        most  == IF p[1] > p[2] /\ p[1] > p[3] THEN "home_win"
                 ELSE IF p[3] > p[2] THEN "away_win" ELSE "draw"
        top   == CHOOSE v \in {p[1], p[2], p[3]} : \A w \in {p[1], p[2], p[3]} : w <= v
    IN  [kind |-> "MatchPrediction", home_team |-> home_team, away_team |-> away_team,
         home_win_prob |-> p[1], draw_prob |-> p[2], away_win_prob |-> p[3],
         most_likely |-> most, confidence |-> top,
         predicted_score |-> IF most = "home_win" THEN <<2, 1>>
                             ELSE IF most = "away_win" THEN <<1, 2>> ELSE <<1, 1>>]

(***************************************************************************)
(* Specification SpecBasic: one call of _predict_basic for any two names.  *)
(***************************************************************************)
BasicNames == DOMAIN team_strengths \cup TypedNames

InitBasic ==
    /\ params \in [home : BasicNames, away : BasicNames]
    /\ df = None
    /\ pc = "ready"
    /\ feat = None
    /\ FormIdle
    /\ EloIdle
    /\ TrainIdle

PredictBasic ==
    /\ pc = "ready"
    /\ out' = predict_basic(params.home, params.away)
    /\ console' = <<"Using basic prediction mode">>
    /\ pc' = "predicted"
    /\ UNCHANGED <<df, params, feat, formVars, eloVars, trainVars, temp_df>>

NextBasic == PredictBasic

SpecBasic == InitBasic /\ [][NextBasic]_vars

\* C22: for every pair of names the three probabilities _predict_basic
\* returns lie in [0, 1] and sum to 1 within 0.01
C22_BasicProbabilities ==
    pc = "predicted" =>
        /\ \A v \in {out.home_win_prob, out.draw_prob, out.away_win_prob} :
                0 <= v /\ v <= ProbScale
        /\ out.home_win_prob + out.draw_prob + out.away_win_prob >= ProbScale - 10
        /\ out.home_win_prob + out.draw_prob + out.away_win_prob <= ProbScale + 10

\* a known home team against a name the strength table does not have
C22_Witness ==
    /\ pc = "predicted"
    /\ params.home = "manchester city"
    /\ params.away = "leeds"
    /\ out.most_likely = "home_win"

(***************************************************************************)
(* EPLPredictionSystem._validate_team_names and predict_match              *)
(* (src/src/core/epl_prediction_advanced.py:181-302)                       *)
(***************************************************************************)
\* lines 183-189
valid_teams ==
    {"arsenal", "aston villa", "bournemouth", "brentford", "brighton",
     "chelsea", "crystal palace", "everton", "fulham", "ipswich town",
     "leicester city", "liverpool", "manchester city", "manchester united",
     "newcastle", "nottingham forest", "southampton", "tottenham",
     "west ham", "wolverhampton"}

\* lines 196-205
aliases ==
    ("man city" :> "manchester city") @@ ("man united" :> "manchester united")
    @@ ("man utd" :> "manchester united") @@ ("spurs" :> "tottenham")
    @@ ("wolves" :> "wolverhampton") @@ ("brighton & hove albion" :> "brighton")
    @@ ("tottenham hotspur" :> "tottenham") @@ ("west ham united" :> "west ham")

\* str.strip() of every name of the model
strip(name) ==
    CASE name = " chelsea " -> "chelsea"
      [] name = " spurs "   -> "spurs"
      [] OTHER              -> name

\* a plausible slip: the alias table not consulted
aliases_ignored(name) == name

\* lines 207-208: aliases.get(name, name)
aliases_get(name) == IF name \in DOMAIN aliases THEN aliases[name] ELSE name

\* lines 192-193, 207-208
normalized(name) == aliases_get(strip(lower(name)))

\* lines 181-219: the pair (valid, error message)
validate_team_names(home_team, away_team) ==
    IF normalized(home_team) \notin valid_teams
    THEN <<FALSE, "Invalid home team">>
    ELSE IF normalized(away_team) \notin valid_teams
    THEN <<FALSE, "Invalid away team">>
    ELSE IF normalized(home_team) = normalized(away_team)
    THEN <<FALSE, "Home and away teams cannot be the same.">>
    ELSE <<TRUE, "">>

\* the ways the statistical engine can answer predict_match_statistical
EngineAnswers == {"probabilities", "error", "exception"}

\* the probabilities an engine answer carries
EngineProbabilities == {<<500, 300, 200>>, <<200, 300, 500>>}

\* lines 221-302: predict_match(home_team, away_team); params.advanced_mode
\* and params.engine are the state of the system the call runs in
PredictMatch ==
    /\ pc = "ready"
    /\ LET v == validate_team_names(params.home, params.away)
       IN  IF ~v[1]
           THEN /\ console' = <<v[2]>>
                /\ out' = None
                /\ pc' = "rejected"
           ELSE IF params.advanced_mode /\ params.engine = "probabilities"
           THEN \E p \in EngineProbabilities :
                /\ out' = [kind |-> "MatchPrediction", home_team |-> params.home,
                           away_team |-> params.away, home_win_prob |-> p[1],
                           draw_prob |-> p[2], away_win_prob |-> p[3]]
                /\ console' = <<"ADVANCED EPL MATCH PREDICTION">>
                /\ pc' = "predicted"
           ELSE /\ out' = predict_basic(params.home, params.away)
                /\ console' = <<"ADVANCED EPL MATCH PREDICTION",
                                "Using basic prediction mode">>
                /\ pc' = "predicted"
    /\ UNCHANGED <<df, params, feat, formVars, eloVars, trainVars, temp_df>>

(***************************************************************************)
(* Specification SpecValidate: one call of predict_match for any two typed *)
(* names.                                                                  *)
(***************************************************************************)
ValidationNames ==
    valid_teams \cup DOMAIN aliases
        \cup {"Liverpool", "ARSENAL", " chelsea ", "Man City", " Spurs ",
              "leicester", "ipswich", "leeds", ""}

InitValidate ==
    /\ params \in [home : ValidationNames, away : ValidationNames,
                   advanced_mode : BOOLEAN, engine : EngineAnswers]
    /\ df = None
    /\ pc = "ready"
    /\ feat = None
    /\ FormIdle
    /\ EloIdle
    /\ TrainIdle

NextValidate == PredictMatch

SpecValidate == InitValidate /\ [][NextValidate]_vars

\* the EPL team a typed name stands for once lower-cased, trimmed and
\* replaced by its alias, "" when it stands for none
NamedClub(name) ==
    CASE name \in valid_teams -> name
      [] name \in {"man city", "Man City"} -> "manchester city"
      [] name \in {"man united", "man utd"} -> "manchester united"
      [] name \in {"spurs", " Spurs ", "tottenham hotspur"} -> "tottenham"
      [] name = "wolves" -> "wolverhampton"
      [] name = "brighton & hove albion" -> "brighton"
      [] name = "west ham united" -> "west ham"
      [] name = "Liverpool" -> "liverpool"
      [] name = "ARSENAL" -> "arsenal"
      [] name = " chelsea " -> "chelsea"
      [] OTHER -> ""

\* C23: a pair of names is valid exactly when both stand for EPL teams and
\* the teams differ; predict_match returns no prediction for an invalid
\* pair and a prediction for a valid one
C23_ValidNames ==
    pc # "ready" =>
        LET both == /\ NamedClub(params.home) # ""
                    /\ NamedClub(params.away) # ""
                    /\ NamedClub(params.home) # NamedClub(params.away)
        IN  /\ validate_team_names(params.home, params.away)[1] = both
            /\ pc = "rejected" <=> ~both
            /\ pc = "rejected" => out = None
            /\ pc = "predicted" => out # None

\* an alias against a padded, capitalised alias of another team is accepted
C23_Witness ==
    /\ pc = "predicted"
    /\ params.home = "man utd"
    /\ params.away = " Spurs "

(***************************************************************************)
(* Pre-match Elo as a replay (SpecElo)                                     *)
(***************************************************************************)
\* the rows before row i of df that have both scores, in table order
EarlierPlayed(i) ==
    Filter(SubSeq(df, 1, i - 1), [j \in 1..(i - 1) |-> played(df[j])])

\* every team at 1500, then the Elo update of each row of q in order
RECURSIVE Replay(_, _)
Replay(q, n) ==
    IF n = 0 THEN <<>>
    ELSE elo_update(Replay(q, n - 1), q[n], params.k_factor, params.home_adv)

\* C24: when compute_elo_features returns, the pre-match ratings of every
\* row are those of a replay, from 1500 for every team, of exactly the
\* earlier rows that have both scores, and elo_diff is their difference;
\* rows without a result and the row itself do not enter
C24_EloReplay ==
    pc = "elo_done" =>
        \A i \in 1..Len(df) :
            LET rt == Replay(EarlierPlayed(i), Len(EarlierPlayed(i)))
            IN  /\ feat[i].elo_home_pre = get_rating(rt, df[i].home_team_id)
                /\ feat[i].elo_away_pre = get_rating(rt, df[i].away_team_id)
                /\ feat[i].elo_diff = get_rating(rt, df[i].home_team_id)
                                        - get_rating(rt, df[i].away_team_id)

\* the home team won the first match and plays the second: its pre-match
\* rating is above 1500, the loser's below
C24_Witness ==
    /\ pc = "elo_done"
    /\ Len(df) = 2
    /\ played(df[1]) /\ df[1].home_team_score > df[1].away_team_score
    /\ df[2].home_team_id = df[1].home_team_id
    /\ df[2].away_team_id = df[1].away_team_id
    /\ feat[2].elo_home_pre > InitialRating * EloUnit
    /\ feat[2].elo_away_pre < InitialRating * EloUnit

(***************************************************************************)
(* The rolling form value of a team appearance (SpecForm)                  *)
(***************************************************************************)
\* the rows of df, in date order, in which the team plays before day d
EarlierAppearances(team, d) ==
    Filter(RowNumbers(df),
           [j \in 1..Len(df) |->
                team \in {df[j].home_team_id, df[j].away_team_id} /\ df[j].date < d])

\* the team's side of row j
SideOf(j, team) ==
    IF df[j].home_team_id = team THEN home_df(df)[j] ELSE away_df(df)[j]

\* the four rolling values of a team on day d: over its last min(k, window)
\* earlier appearances, all missing when it has none
FormOf(team, d) ==
    LET last == LastOf(EarlierAppearances(team, d), params.window)
        side == [k \in 1..Len(last) |-> SideOf(last[k], team)]
    IN  [ppg_last5    |-> MeanOf([k \in 1..Len(side) |-> pts(side[k])]),
         gd_avg_last5 |-> MeanOf([k \in 1..Len(side) |-> gd(side[k])]),
         gf_avg_last5 |-> MeanOf([k \in 1..Len(side) |-> gf(side[k])]),
         ga_avg_last5 |-> MeanOf([k \in 1..Len(side) |-> ga(side[k])])]

\* C25: the four rolling columns joined onto a match for its home team and
\* for its away team are the means over that team's last min(k, window)
\* earlier appearances, null when the team has none; no other team's
\* matches enter
C25_RollingForm ==
    pc # "raw" =>
        \A i \in 1..Len(df) :
            LET h == FormOf(df[i].home_team_id, df[i].date)
                a == FormOf(df[i].away_team_id, df[i].date)
            IN  /\ feat[i].home_ppg_last5 = h.ppg_last5
                /\ feat[i].home_gd_avg_last5 = h.gd_avg_last5
                /\ feat[i].home_gf_avg_last5 = h.gf_avg_last5
                /\ feat[i].home_ga_avg_last5 = h.ga_avg_last5
                /\ feat[i].away_ppg_last5 = a.ppg_last5
                /\ feat[i].away_gd_avg_last5 = a.gd_avg_last5
                /\ feat[i].away_gf_avg_last5 = a.gf_avg_last5
                /\ feat[i].away_ga_avg_last5 = a.ga_avg_last5

(***************************************************************************)
(* Specification SpecH2H: compute_head_to_head_features over a table of    *)
(* up to MaxH2HRows meetings played on distinct days, handed over in       *)
(* ascending or descending date order, with a window of one meeting or     *)
(* the default five.                                                       *)
(***************************************************************************)
MaxH2HRows == 3

H2HFixtures ==
    {Fixture(<<2023, 2024>>, 0, pr[1], pr[2], sc[1], sc[2]) :
        pr \in {<<1, 2>>, <<2, 1>>, <<1, 3>>},
        sc \in {<<NaN, NaN>>, <<1, 0>>, <<0, 1>>}}

H2HTables ==
    UNION {{Dated(t), Reverse(Dated(t))} : t \in SeqsUpTo(H2HFixtures, MaxH2HRows)}

InitH2H ==
    /\ df \in H2HTables
    /\ params \in [window : {1, DefaultWindow}]
    /\ pc = "table"
    /\ feat = None
    /\ FormIdle
    /\ EloIdle
    /\ TrainIdle

NextH2H == ComputeHeadToHeadFeatures

SpecH2H == InitH2H /\ [][NextH2H]_vars

\* the rows of the returned table where the teams of row n met on an
\* earlier day
EarlierMeetings(n) ==
    {j \in 1..Len(out.rows) :
        /\ {out.rows[j].home_team_id, out.rows[j].away_team_id}
             = {out.rows[n].home_team_id, out.rows[n].away_team_id}
        /\ out.rows[j].date < out.rows[n].date}

\* the points the home side of the day took at the earlier meetings of the
\* teams of row n, oldest meeting first
MeetingPoints(n) ==
    LET E     == EarlierMeetings(n)
        at(k) == CHOOSE j \in E :
                    Cardinality({e \in E : out.rows[e].date < out.rows[j].date}) = k - 1
        r(k)  == out.rows[at(k)]
    IN  [k \in 1..Cardinality(E) |->
            IF isna(r(k).home_team_score) THEN 1
            ELSE IF r(k).home_team_score > r(k).away_team_score THEN 3
            ELSE IF r(k).home_team_score = r(k).away_team_score THEN 1
            ELSE 0]

RECURSIVE last_date_per_team(_, _, _)
last_date_per_team(t, team_col, n) ==
    IF n = 0 THEN <<>>
    ELSE SetItem(last_date_per_team(t, team_col, n - 1), t[n][team_col], t[n].date)

\* lines 1355-1358: the value appended to rest_days for row n
rest_days(t, team_col, n) ==
    LET seen    == last_date_per_team(t, team_col, n - 1)
        team_id == t[n][team_col]
        d       == t[n].date
    IN  IF team_id \in DOMAIN seen /\ notna(seen[team_id]) /\ notna(d)
        THEN d - seen[team_id] ELSE NaN

\* add_rest_days(df): the table sorted by date with the two columns
AddRestDays ==
    /\ pc = "table"
    /\ \E sorted \in date_sorted(df) :
        /\ out' = [kind |-> "table", rows |-> sorted]
        /\ feat' = [n \in 1..Len(sorted) |->
                        [home_rest_days |-> rest_days(sorted, "home_team_id", n),
                         away_rest_days |-> rest_days(sorted, "away_team_id", n)]]
    /\ pc' = "add_rest_days"
    /\ UNCHANGED <<df, params, formVars, eloVars, trainVars, cmdVars>>

InitRest ==
    /\ df \in H2HTables
    /\ params = None
    /\ pc = "table"
    /\ feat = None
    /\ FormIdle
    /\ EloIdle
    /\ TrainIdle

NextRest == AddRestDays

SpecRest == InitRest /\ [][NextRest]_vars

\* the days since the last earlier row of the returned table in which the
\* team appears on either side, null when there is none
DaysSincePrevious(team, n) ==
    LET earlier == {j \in 1..Len(out.rows) :
                       /\ team \in {out.rows[j].home_team_id, out.rows[j].away_team_id}
                       /\ out.rows[j].date < out.rows[n].date}
    IN  IF earlier = {} THEN NaN
        ELSE LET last == CHOOSE j \in earlier :
                             \A e \in earlier : out.rows[e].date <= out.rows[j].date
             IN  out.rows[n].date - out.rows[last].date

\* C27: for every match home_rest_days and away_rest_days are the days
\* between the match and the team's previous appearance in any match, home
\* or away, and null when the team has no earlier appearance
C27_RestDays ==
    pc = "add_rest_days" =>
        \A n \in 1..Len(out.rows) :
            /\ feat[n].home_rest_days = DaysSincePrevious(out.rows[n].home_team_id, n)
            /\ feat[n].away_rest_days = DaysSincePrevious(out.rows[n].away_team_id, n)

\* C28: single-season fallback split: when the labeled rows, at least 2,
\* carry one season_id, the validation rows are the last fifth of the labeled
\* rows (rounded up to a whole row) and the training rows the labeled rows
\* before them, in table order: disjoint, covering all labeled rows, every
\* training row before every validation row
C28_FallbackSplit ==
    (split # None /\ Cardinality(LabeledSeasons) = 1 /\ Cardinality(LabeledRows) >= 2) =>
        LET n == Cardinality(LabeledRows)
            v == Len(split.val_idx)
        IN  /\ 5 * v >= n
            /\ 5 * (v - 1) < n
            /\ Len(split.train_idx) = n - v
            /\ Range(split.train_idx) \cap Range(split.val_idx) = {}
            /\ Range(split.train_idx) \cup Range(split.val_idx) = LabeledRows
            /\ Increasing(split.train_idx)
            /\ Increasing(split.val_idx)
            /\ \A a \in Range(split.train_idx), b \in Range(split.val_idx) : a < b

\* three labeled rows of one season: the first two train, the last validates
C28_Witness ==
    /\ split # None
    /\ Cardinality(LabeledSeasons) = 1
    /\ LabeledRows = {1, 2, 3}
    /\ split.train_idx = <<1, 2>>
    /\ split.val_idx = <<3>>

\* C29: in predict_single_match the row whose features are passed to the
\* model is the row of the chosen candidate fixture: its home_team_id and
\* away_team_id are the candidate's, also when the table holds rows dated
\* later than the candidate
C29_TargetIsCandidate ==
    (MatchCalled /\ temp_df # None) =>
        LET fed  == temp_df[X.index[1]]
            cand == temp_df[Len(temp_df)]
        IN  /\ fed.home_team_id = cand.home_team_id
            /\ fed.away_team_id = cand.away_team_id

(***************************************************************************)
(* Specification SpecUnplayed: the form and head-to-head builders of       *)
(* prepare_dataset (lines 1736-1737) applied to a table of up to           *)
(* MaxH2HRows matches on distinct days in date order, and to the same      *)
(* table without one of its fixtures that has no result.                   *)
(***************************************************************************)

\* lines 1736-1737: the columns compute_form_features and then
\* compute_head_to_head_features add to the rows of t
rolling_features(t, window) ==
    LET form   == compute_form_features(t, window)
        sorted == CHOOSE q \in date_sorted(t) : TRUE
    IN  [i \in 1..Len(t) |->
            form[i] @@ [h2h_home_ppg_last5 |-> h2h_ppg(sorted, i, window)]]

\* the table without its row u
Without(t, u) == SubSeq(t, 1, u - 1) \o SubSeq(t, u + 1, Len(t))

UnplayedTables == {Dated(t) : t \in SeqsUpTo(H2HFixtures, MaxH2HRows)}

InitUnplayed ==
    /\ df \in UnplayedTables
    /\ params = [window |-> DefaultWindow]
    /\ pc = "table"
    /\ feat = None
    /\ FormIdle
    /\ EloIdle
    /\ TrainIdle

\* the two builders on the whole table
BuildRolling ==
    /\ pc = "table"
    /\ feat' = rolling_features(df, params.window)
    /\ pc' = "built"
    /\ UNCHANGED <<df, params, formVars, eloVars, trainVars, out, cmdVars>>

\* the two builders on the table without the fixture u, which has no result
BuildRollingWithout ==
    /\ pc = "built"
    /\ \E u \in 1..Len(df) :
        /\ unscored(df[u])
        /\ mref' = u
        /\ cut' = rolling_features(Without(df, u), params.window)
    /\ pc' = "cut"
    /\ UNCHANGED <<df, params, feat, eloVars, trainVars, out, cmdVars>>

NextUnplayed == BuildRolling \/ BuildRollingWithout

SpecUnplayed == InitUnplayed /\ [][NextUnplayed]_vars

\* C30: a fixture without a result adds nothing to the rolling state: the
\* form and head-to-head columns of every other match are the same as when
\* the fixture is absent from the table
C30_UnplayedAddsNothing ==
    pc = "cut" =>
        \A i \in 1..Len(df) :
            i # mref => feat[i] = cut[IF i < mref THEN i ELSE i - 1]

====
